---- MODULE Spec2Model ----
(***************************************************************************)
(* A model of memory_layout/simpleyaml.py: the SimpleYAML line parser      *)
(* (SimpleYAML.load), its scalar decoder (SimpleYAML.decode_value) and     *)
(* its directive handler (SimpleYAML.parse_directive).                     *)
(*                                                                         *)
(* Text is a sequence of characters, a character being a one-character     *)
(* string (control characters and characters outside printable ASCII are   *)
(* written "\u<code point>").  A Python value is a record                  *)
(*     [t |-> type tag, n |-> integer, e |-> integer, s |-> text]          *)
(* and containers live in a heap of objects addressed by reference, so     *)
(* that aliasing (state.current pointing into the tree under state.root)   *)
(* is what it is in Python.                                                *)
(***************************************************************************)
EXTENDS Integers, Sequences, FiniteSets, TLC

(***************************************************************************)
(* Characters                                                              *)
(***************************************************************************)
Ascii ==
  << " ", "!", "\"", "#", "$", "%", "&", "'", "(", ")", "*", "+", ",", "-",
     ".", "/", "0", "1", "2", "3", "4", "5", "6", "7", "8", "9", ":", ";",
     "<", "=", ">", "?", "@", "A", "B", "C", "D", "E", "F", "G", "H", "I",
     "J", "K", "L", "M", "N", "O", "P", "Q", "R", "S", "T", "U", "V", "W",
     "X", "Y", "Z", "[", "\\", "]", "^", "_", "\\u96", "a", "b", "c", "d", "e",
     "f", "g", "h", "i", "j", "k", "l", "m", "n", "o", "p", "q", "r", "s",
     "t", "u", "v", "w", "x", "y", "z", "{", "|", "}", "~" >>

\* chr / unichr: the character with code point n.
Chr(n) == IF n >= 32 /\ n <= 126 THEN Ascii[n - 31] ELSE "\\u" \o ToString(n)

TAB == Chr(9)
\* The characters str.strip, str.lstrip, str.rstrip and the regex class \s remove.
Whitespace == {" ", Chr(9), Chr(10), Chr(11), Chr(12), Chr(13)}
DecDigits == {"0", "1", "2", "3", "4", "5", "6", "7", "8", "9"}

\* The value of a digit character in bases up to 16, -1 for any other character.
DigitVal(c) ==
  CASE c = "0" -> 0 [] c = "1" -> 1 [] c = "2" -> 2 [] c = "3" -> 3
    [] c = "4" -> 4 [] c = "5" -> 5 [] c = "6" -> 6 [] c = "7" -> 7
    [] c = "8" -> 8 [] c = "9" -> 9
    [] c \in {"a", "A"} -> 10 [] c \in {"b", "B"} -> 11
    [] c \in {"c", "C"} -> 12 [] c \in {"d", "D"} -> 13
    [] c \in {"e", "E"} -> 14 [] c \in {"f", "F"} -> 15
    [] OTHER -> -1

(***************************************************************************)
(* Python string operations                                                *)
(***************************************************************************)
\* s[n:]
Drop(s, n) == IF n >= Len(s) THEN << >> ELSE SubSeq(s, n + 1, Len(s))
\* s[:n]
Take(s, n) == IF n >= Len(s) THEN s ELSE SubSeq(s, 1, n)
\* s[a:b], 0-based, both clipped
Slice(s, a, b) == Drop(Take(s, b), a)

RECURSIVE lstrip(_)
lstrip(s) ==
  IF s # << >> /\ s[1] \in Whitespace THEN lstrip(Tail(s)) ELSE s

RECURSIVE rstrip(_)
rstrip(s) ==
  IF s # << >> /\ s[Len(s)] \in Whitespace
    THEN rstrip(SubSeq(s, 1, Len(s) - 1))
    ELSE s

\* str.strip
strip(s) == lstrip(rstrip(s))

\* Whether text p is at position i (1-based) of s.
HasAt(s, i, p) ==
  /\ i >= 1
  /\ i + Len(p) - 1 <= Len(s)
  /\ \A k \in 1..Len(p) : s[i + k - 1] = p[k]

\* str.index / the 'in' test on strings: the first position (1-based) of p
\* in s at or after i, 0 when there is none.
RECURSIVE FindFrom(_, _, _)
FindFrom(s, p, i) ==
  IF i + Len(p) - 1 > Len(s) THEN 0
  ELSE IF HasAt(s, i, p) THEN i
  ELSE FindFrom(s, p, i + 1)

\* str.replace(old, new): left to right, matches do not overlap.
RECURSIVE replace(_, _, _)
replace(s, old, new) ==
  IF s = << >> THEN << >>
  ELSE IF HasAt(s, 1, old) THEN new \o replace(Drop(s, Len(old)), old, new)
  ELSE << s[1] >> \o replace(Tail(s), old, new)

\* str.isdigit, for ASCII text
isdigit(s) == s # << >> /\ \A k \in 1..Len(s) : s[k] \in DecDigits

\* str.split(sep) for a one-character separator.
RECURSIVE split(_, _)
split(s, sep) ==
  LET i == FindFrom(s, << sep >>, 1)
  IN  IF i = 0 THEN << s >>
      ELSE << Take(s, i - 1) >> \o split(Drop(s, i), sep)

(***************************************************************************)
(* Python values                                                           *)
(***************************************************************************)
None == [t |-> "None", n |-> 0, e |-> 0, s |-> << >>]
PyBool(b) == [t |-> "bool", n |-> IF b THEN 1 ELSE 0, e |-> 0, s |-> << >>]
PyInt(i) == [t |-> "int", n |-> i, e |-> 0, s |-> << >>]
PyStr(x) == [t |-> "str", n |-> 0, e |-> 0, s |-> x]
\* A reference to the heap object number i (a dict or a list).
PyRef(i) == [t |-> "ref", n |-> i, e |-> 0, s |-> << >>]

\* A float is m * 10^x, kept in lowest terms (m not divisible by 10).
RECURSIVE PyFloat(_, _)
PyFloat(m, x) ==
  IF m = 0 THEN [t |-> "float", n |-> 0, e |-> 0, s |-> << >>]
  ELSE IF m % 10 = 0 THEN PyFloat(m \div 10, x + 1)
  ELSE [t |-> "float", n |-> m, e |-> x, s |-> << >>]
\* float('inf') and -float('inf') (sign 1 or -1); float('nan')
PyInf(sign) == [t |-> "float", n |-> sign, e |-> 0, s |-> << "i", "n", "f" >>]
PyNaN == [t |-> "float", n |-> 0, e |-> 0, s |-> << "n", "a", "n" >>]

RECURSIVE Pow(_, _)
Pow(b, k) == IF k <= 0 THEN 1 ELSE b * Pow(b, k - 1)

\* Python truth value of a value held in state.last (None or a str).
Truthy(v) == v.t = "str" /\ v.s # << >>

(***************************************************************************)
(* Python's int(text, base) and float(text)                                *)
(*                                                                         *)
(* The locals of a function are passed on as parameters of the operator    *)
(* that models its next lines.                                             *)
(***************************************************************************)
\* s without a leading sign
Unsigned(s) == IF s # << >> /\ s[1] \in {"-", "+"} THEN Tail(s) ELSE s
IsNegative(s) == s # << >> /\ s[1] = "-"

AllIn(s, cs) == \A k \in 1..Len(s) : s[k] \in cs

\* The position of the first character of s that is in set cs, 0 if none.
RECURSIVE FindChar(_, _, _)
FindChar(s, cs, i) ==
  IF i > Len(s) THEN 0 ELSE IF s[i] \in cs THEN i ELSE FindChar(s, cs, i + 1)

\* Digits of the base with single underscores between them.
DigitBody(s, base) ==
  /\ s # << >>
  /\ \A k \in 1..Len(s) :
       \/ DigitVal(s[k]) >= 0 /\ DigitVal(s[k]) < base
       \/ s[k] = "_" /\ k > 1 /\ k < Len(s) /\ s[k - 1] # "_"

RECURSIVE DigitsValue(_, _, _)
DigitsValue(s, base, acc) ==
  IF s = << >> THEN acc
  ELSE IF s[1] = "_" THEN DigitsValue(Tail(s), base, acc)
  ELSE DigitsValue(Tail(s), base, acc * base + DigitVal(s[1]))

BasePrefix(base) ==
  CASE base = 16 -> {"x", "X"} [] base = 8 -> {"o", "O"}
    [] base = 2 -> {"b", "B"} [] OTHER -> {}

IntDigits(d, base, neg) ==
  IF DigitBody(d, base)
    THEN [ok |-> TRUE,
          v |-> IF neg THEN -DigitsValue(d, base, 0) ELSE DigitsValue(d, base, 0)]
    ELSE [ok |-> FALSE, v |-> 0]

IntUnsigned(b, base, neg) ==
  IF Len(b) >= 2 /\ b[1] = "0" /\ b[2] \in BasePrefix(base)
    THEN IntDigits(IF Len(b) >= 3 /\ b[3] = "_" THEN Drop(b, 3) ELSE Drop(b, 2),
                   base, neg)
    ELSE IntDigits(b, base, neg)

IntStripped(a, base) == IntUnsigned(Unsigned(a), base, IsNegative(a))

\* int(s, base): [ok |-> whether the text is a number of the base (otherwise
\* Python raises ValueError), v |-> its value].  Surrounding whitespace, a
\* sign and the base's own prefix are accepted, as int() accepts them.
int_(s, base) == IntStripped(strip(s), base)

Lower(c) ==
  CASE c = "I" -> "i" [] c = "N" -> "n" [] c = "F" -> "f" [] c = "A" -> "a"
    [] c = "T" -> "t" [] c = "Y" -> "y" [] OTHER -> c

FloatValue(digits, nfrac, exdig, exneg, sign) ==
  PyFloat(sign * DigitsValue(digits, 10, 0),
          (IF exdig = << >> THEN 0
           ELSE IF exneg THEN -DigitsValue(exdig, 10, 0)
           ELSE DigitsValue(exdig, 10, 0)) - nfrac)

\* The integer part, the fraction, the exponent's digits and sign.
FloatParts(ip, fp, exdig, exneg, hasexp, sign) ==
  IF /\ ip # << >> \/ fp # << >>
     /\ ip = << >> \/ DigitBody(ip, 10)
     /\ fp = << >> \/ DigitBody(fp, 10)
     /\ ~hasexp \/ DigitBody(exdig, 10)
    THEN [ok |-> TRUE,
          v |-> FloatValue(ip \o replace(fp, << "_" >>, << >>),
                           Len(replace(fp, << "_" >>, << >>)),
                           exdig, exneg, sign)]
    ELSE [ok |-> FALSE, v |-> None]

FloatMantissa(mant, dp, ex, hasexp, sign) ==
  FloatParts(IF dp = 0 THEN mant ELSE Take(mant, dp - 1),
             IF dp = 0 THEN << >> ELSE Drop(mant, dp),
             Unsigned(ex), IsNegative(ex), hasexp, sign)

FloatExponent(b, ep, sign) ==
  FloatMantissa(IF ep = 0 THEN b ELSE Take(b, ep - 1),
                FindChar(IF ep = 0 THEN b ELSE Take(b, ep - 1), {"."}, 1),
                IF ep = 0 THEN << >> ELSE Drop(b, ep),
                ep > 0, sign)

FloatUnsigned(b, sign) ==
  IF [k \in 1..Len(b) |-> Lower(b[k])]
       \in {<< "i", "n", "f" >>, << "i", "n", "f", "i", "n", "i", "t", "y" >>}
    THEN [ok |-> TRUE, v |-> PyInf(sign)]
  ELSE IF [k \in 1..Len(b) |-> Lower(b[k])] = << "n", "a", "n" >>
    THEN [ok |-> TRUE, v |-> PyNaN]
  ELSE FloatExponent(b, FindChar(b, {"e", "E"}, 1), sign)

FloatStripped(a) == FloatUnsigned(Unsigned(a), IF IsNegative(a) THEN -1 ELSE 1)

\* float(s): [ok |-> whether the text is a float (otherwise ValueError),
\* v |-> the value, exact].
float_(s) == FloatStripped(strip(s))

\* int + float and int * 60 as Python computes them on an int or float value.
PyTimes60(v) ==
  IF v.t = "int" THEN PyInt(v.n * 60) ELSE PyFloat(v.n * 60, v.e)

Min(a, b) == IF a < b THEN a ELSE b

PyAdd(v, w) ==
  IF v.t = "int" /\ w.t = "int" THEN PyInt(v.n + w.n)
  ELSE PyFloat(v.n * Pow(10, v.e - Min(v.e, w.e))
                 + w.n * Pow(10, w.e - Min(v.e, w.e)),
               Min(v.e, w.e))

PyNeg(v) == IF v.t = "int" THEN PyInt(-v.n) ELSE PyFloat(-v.n, v.e)

\* f >= m * 10^x for a float f (False for NaN, as every comparison with it).
FloatGE(f, m, x) ==
  IF f.s = << "n", "a", "n" >> THEN FALSE
  ELSE IF f.s = << "i", "n", "f" >> THEN f.n > 0
  ELSE f.n * Pow(10, f.e - Min(f.e, x)) >= m * Pow(10, x - Min(f.e, x))

(***************************************************************************)
(* SimpleYAML: the class constants                                         *)
(***************************************************************************)
\* The result of a call: exc is the class of the exception it raised ("" when
\* it returned), v the value returned.
Returns(v) == [exc |-> "", v |-> v]
Raises(kind) == [exc |-> kind, v |-> None]

\* SimpleYAML.escapes: the characters with an entry, and the entry.
escape_keys ==
  {"0", "a", "b", "t", TAB, "n", "N", "v", "f", "r", "e", " ", "_", "L", "P"}

escapes(c) ==
  CASE c = "0" -> Chr(0) [] c = "a" -> Chr(7) [] c = "b" -> Chr(8)
    [] c = "t" -> Chr(9) [] c = TAB -> Chr(9)
    [] c = "n" -> Chr(10) [] c = "N" -> Chr(133)
    [] c = "v" -> Chr(11) [] c = "f" -> Chr(12)
    [] c = "r" -> Chr(13)
    [] c = "e" -> Chr(30)
    [] c = " " -> " " [] c = "_" -> Chr(160)
    [] c = "L" -> Chr(8232) [] c = "P" -> Chr(8233)

\* SimpleYAML.boolean_values and SimpleYAML.null_values
\* The keys of boolean_values with the aliases of YAML 1.1.
boolean_keys_yaml11 ==
  {<< "t", "r", "u", "e" >>, << "f", "a", "l", "s", "e" >>,
   << "y", "e", "s" >>, << "n", "o" >>, << "o", "n" >>, << "o", "f", "f" >>}

boolean_keys == {<< "t", "r", "u", "e" >>, << "f", "a", "l", "s", "e" >>}
boolean_values(s) == PyBool(s = << "t", "r", "u", "e" >>)
null_values ==
  {<< "~" >>, << "n", "u", "l", "l" >>, << "N", "u", "l", "l" >>,
   << "N", "U", "L", "L" >>}

is_hex(s) == int_(s, 16).ok
is_bin(s) == int_(s, 2).ok
is_oct(s) == int_(s, 8).ok

(***************************************************************************)
(* SimpleYAML: the value patterns                                          *)
(***************************************************************************)
\* Whether the text is empty or a comment: (\s*#.*)?$
IsCommentTail(r) == r = << >> \/ r[1] = "#"
CommentTail(s, i) == IsCommentTail(lstrip(Drop(s, i - 1)))

\* value_sqstr_re and value_dqstr_re, ^Q(.*)Q(\s*#.*)?$ for the quote Q: the
\* greedy group ends at the last quote that only a comment follows.
RECURSIVE QuoteEnd(_, _, _)
QuoteEnd(s, q, i) ==
  IF i < 2 THEN 0
  ELSE IF s[i] = q /\ CommentTail(s, i + 1) THEN i
  ELSE QuoteEnd(s, q, i - 1)

QuotedGroup(s, i) ==
  [m |-> i > 0, g1 |-> IF i > 0 THEN SubSeq(s, 2, i - 1) ELSE << >>]

QuotedMatch(s, q) ==
  QuotedGroup(s, IF s # << >> /\ s[1] = q THEN QuoteEnd(s, q, Len(s)) ELSE 0)

value_sqstr_re(s) == QuotedMatch(s, "'")
value_dqstr_re(s) == QuotedMatch(s, "\"")

\* value_base60_re: ^[-+]?[0-9][0-9_]*(:[0-5]?[0-9])+(\.[0-9_]*)?$
Base60Groups(groups, frac) ==
  /\ AllIn(frac, DecDigits \cup {"_"})
  /\ Len(groups) >= 2
  /\ groups[1] # << >>
  /\ groups[1][1] \in DecDigits
  /\ AllIn(groups[1], DecDigits \cup {"_"})
  /\ \A k \in 2..Len(groups) :
       \/ Len(groups[k]) = 1 /\ groups[k][1] \in DecDigits
       \/ /\ Len(groups[k]) = 2
          /\ groups[k][1] \in {"0", "1", "2", "3", "4", "5"}
          /\ groups[k][2] \in DecDigits

Base60Point(u, dp) ==
  Base60Groups(split(IF dp = 0 THEN u ELSE Take(u, dp - 1), ":"),
               IF dp = 0 THEN << >> ELSE Drop(u, dp))

Base60Unsigned(u) == Base60Point(u, FindChar(u, {"."}, 1))

value_base60_re(s) == Base60Unsigned(Unsigned(s))

\* value_float_re: ^[-+]?([0-9][0-9_]*\.[0-9]*|\.[0-9]+)([eE][-+][0-9]+)?$
FloatReParts(ip, fp, ex, hasexp) ==
  /\ AllIn(fp, DecDigits)
  /\ \/ ip = << >> /\ fp # << >>
     \/ ip # << >> /\ ip[1] \in DecDigits /\ AllIn(ip, DecDigits \cup {"_"})
  /\ ~hasexp \/ (Len(ex) >= 2 /\ ex[1] \in {"-", "+"} /\ isdigit(Tail(ex)))

FloatRePoint(mant, dp, ex, hasexp) ==
  /\ dp > 0
  /\ FloatReParts(Take(mant, dp - 1), Drop(mant, dp), ex, hasexp)

FloatReExponent(u, ep) ==
  FloatRePoint(IF ep = 0 THEN u ELSE Take(u, ep - 1),
               FindChar(IF ep = 0 THEN u ELSE Take(u, ep - 1), {"."}, 1),
               IF ep = 0 THEN << >> ELSE Drop(u, ep),
               ep > 0)

FloatReUnsigned(u) == FloatReExponent(u, FindChar(u, {"e", "E"}, 1))

value_float_re(s) == FloatReUnsigned(Unsigned(s))

\* value_inf_re: ^[-+]?\.(inf|Inf|INF)$
value_inf_re(s) ==
  Unsigned(s) \in {<< ".", "i", "n", "f" >>, << ".", "I", "n", "f" >>,
                   << ".", "I", "N", "F" >>}

\* value_nan_re: ^\.(nan|NaN|NAN)$
value_nan_re(s) ==
  s \in {<< ".", "n", "a", "n" >>, << ".", "N", "a", "N" >>,
         << ".", "N", "A", "N" >>}

\* escape_split_re.split: cut at every backslash that no backslash follows.
RECURSIVE escape_split(_, _)
escape_split(s, cur) ==
  IF s = << >> THEN << cur >>
  ELSE IF s[1] = "\\" /\ ~(Len(s) >= 2 /\ s[2] = "\\")
    THEN << cur >> \o escape_split(Tail(s), << >>)
  ELSE escape_split(Tail(s), Append(cur, s[1]))

(***************************************************************************)
(* SimpleYAML.decode_value                                                 *)
(***************************************************************************)
\* chr(n) followed by the rest of the part, n being int(c, 16).
EscapeChr(n, rest) ==
  IF ~n.ok THEN Raises("ValueError")
  ELSE IF n.v < 0 \/ n.v > 1114111 THEN Raises("ValueError")
  ELSE Returns(PyStr(<< Chr(n.v) >> \o rest))

EscapeCode(c, rest) ==
  IF Len(c) = 8 /\ DigitVal(c[1]) >= 8 /\ DigitBody(Tail(c), 16)
    THEN Raises("OverflowError")
    ELSE EscapeChr(int_(c, 16), rest)

\* One pass of the loop over parts[1:] (lines 150-162).
EscapePart(part) ==
  IF part # << >> /\ part[1] \in escape_keys
    THEN Returns(PyStr(<< escapes(part[1]) >> \o Tail(part)))
  ELSE IF part = << >> THEN Raises("IndexError")
  ELSE IF part[1] = "x" THEN EscapeCode(Slice(part, 1, 3), Drop(part, 3))
  ELSE IF part[1] = "u" THEN EscapeCode(Slice(part, 1, 5), Drop(part, 5))
  ELSE IF part[1] = "U" THEN EscapeCode(Slice(part, 1, 9), Drop(part, 9))
  ELSE Returns(PyStr(part))

\* Lines 150-163: r is the first of the parts left, expanded.
RECURSIVE EscapeLoop(_, _)
EscapeNext(r, parts, value) ==
  IF r.exc # "" THEN r ELSE EscapeLoop(Tail(parts), value \o r.v.s)

EscapeLoop(parts, value) ==
  IF parts = << >> THEN Returns(PyStr(value))
  ELSE EscapeNext(EscapePart(parts[1]), parts, value)

EscapeParts(parts) == EscapeLoop(Tail(parts), parts[1])

\* The double-quoted branch (lines 145-163).
decode_dqstr(g1) == EscapeParts(escape_split(g1, << >>))

\* Lines 208-211: one colon-separated part as a number.
Base60Part(part) ==
  IF FindChar(part, {"."}, 1) > 0
    THEN float_(part).v
    ELSE PyInt(int_(part, 10).v)

\* Lines 207-211
RECURSIVE Base60Loop(_, _)
Base60Loop(parts, value) ==
  IF parts = << >> THEN value
  ELSE Base60Loop(Tail(parts), PyAdd(PyTimes60(value), Base60Part(parts[1])))

\* Lines 212-213 without the test of the sign.
Base60SignedAlwaysPlus(neg, value) == value

Base60Signed(neg, value) == IF neg THEN PyNeg(value) ELSE value

Base60Value(t) ==
  Base60Signed(IsNegative(t), Base60Loop(split(Unsigned(t), ":"), PyInt(0)))

\* The sexagesimal branch (lines 198-215), after the pattern matched.
decode_base60(s) == Base60Value(replace(s, << "_" >>, << >>))

\* Lines 217-234: floats, infinities, NaN, and the text itself.
decode_float(s) ==
  IF value_float_re(s) THEN Returns(float_(replace(s, << "_" >>, << >>)).v)
  ELSE IF value_inf_re(s) THEN Returns(PyInf(IF s[1] = "-" THEN -1 ELSE 1))
  ELSE IF value_nan_re(s) THEN Returns(PyNaN)
  ELSE Returns(PyStr(s))

\* Lines 189-215: decimal integers and sexagesimal numbers; snum is s
\* without its underscores.
decode_decimal(s, snum) ==
  IF isdigit(s) \/ (s[1] \in {"-", "+"} /\ isdigit(Tail(s)))
    THEN Returns(PyInt(int_(s, 10).v))
  ELSE IF FindChar(s, {"_"}, 1) > 0 /\ isdigit(snum)
    THEN Returns(PyInt(int_(snum, 10).v))
  ELSE IF FindChar(s, {"_"}, 1) > 0 /\ snum = << >> THEN Raises("IndexError")
  ELSE IF /\ FindChar(s, {"_"}, 1) > 0
          /\ snum[1] \in {"-", "+"}
          /\ isdigit(Tail(snum))
    THEN Returns(PyInt(int_(snum, 10).v))
  ELSE IF value_base60_re(s) THEN Returns(decode_base60(s))
  ELSE decode_float(s)

\* Lines 180-187: a text that starts with 0.
decode_zero(s, snum) ==
  IF Len(s) < 2 THEN Raises("IndexError")
  ELSE IF s[2] = "x" /\ is_hex(Drop(snum, 2))
    THEN Returns(PyInt(int_(Drop(snum, 2), 16).v))
  ELSE IF s[2] = "b" /\ is_bin(Drop(snum, 2))
    THEN Returns(PyInt(int_(Drop(snum, 2), 2).v))
  ELSE IF is_oct(Drop(snum, 1)) THEN Returns(PyInt(int_(Drop(snum, 1), 8).v))
  ELSE decode_decimal(s, snum)

\* Lines 171-234, for the text without its comment.
decode_typed(s) ==
  IF s \in boolean_keys THEN Returns(boolean_values(s))
  ELSE IF s \in null_values THEN Returns(None)
  ELSE IF s = << >> THEN Raises("IndexError")
  ELSE IF s[1] = "0" THEN decode_zero(s, replace(s, << "_" >>, << >>))
  ELSE decode_decimal(s, replace(s, << "_" >>, << >>))

\* strip_comment without lines 168-169: the comment stays in the text.
strip_comment_kept(s, c) == s

\* Lines 168-169: c is the place of " #" in s (0: none).
strip_comment(s, c) == IF c > 0 THEN rstrip(Take(s, c - 1)) ELSE s

\* The unquoted branches (lines 168-234).
decode_plain(s) ==
  decode_typed(strip_comment(s, FindFrom(s, << " ", "#" >>, 1)))

\* Lines 140-163, with the matches of the two quoted patterns.
decode_quoted(s, sq, dq) ==
  IF sq.m THEN Returns(PyStr(replace(sq.g1, << "'", "'" >>, << "'" >>)))
  ELSE IF dq.m THEN decode_dqstr(dq.g1)
  ELSE decode_plain(s)

decode_value(s) == decode_quoted(s, value_sqstr_re(s), value_dqstr_re(s))

(***************************************************************************)
(* SimpleYAML: the key patterns and the directive pattern                  *)
(***************************************************************************)
NoMatch == [m |-> FALSE, g1 |-> << >>, g2 |-> << >>]

\* The first position at or after i of s that holds no space (Len(s)+1 if none).
RECURSIVE SkipSpaces(_, _)
SkipSpaces(s, i) ==
  IF i <= Len(s) /\ s[i] = " " THEN SkipSpaces(s, i + 1) ELSE i

\* ":(?: +(.*))?$" at position j of the line.
KeyColon(line, j) ==
  IF j > Len(line) \/ line[j] # ":" THEN NoMatch
  ELSE IF j = Len(line) THEN [m |-> TRUE, g1 |-> << >>, g2 |-> << >>]
  ELSE IF line[j + 1] # " " THEN NoMatch
  ELSE [m |-> TRUE, g1 |-> << >>,
        g2 |-> Drop(line, SkipSpaces(line, j + 1) - 1)]

\* The end of the three key patterns, " *:(?: +(.*))?$", matched at position
\* p of the line: g2 is the second group ("" when it did not take part).
KeyTail(line, p) == KeyColon(line, SkipSpaces(line, p))

\* keydq_value_re and keysq_value_re, ^Q(.*)Q *:(?: +(.*))?$ for the quote Q:
\* the greedy group ends at the last quote the rest of the pattern follows.
RECURSIVE QuotedKeyEnd(_, _, _)
QuotedKeyEnd(line, q, i) ==
  IF i < 2 THEN 0
  ELSE IF line[i] = q /\ KeyTail(line, i + 1).m THEN i
  ELSE QuotedKeyEnd(line, q, i - 1)

QuotedKeyGroups(line, i) ==
  IF i = 0 THEN NoMatch
  ELSE [m |-> TRUE, g1 |-> SubSeq(line, 2, i - 1),
        g2 |-> KeyTail(line, i + 1).g2]

QuotedKeyMatch(line, q) ==
  QuotedKeyGroups(line, IF line # << >> /\ line[1] = q
                          THEN QuotedKeyEnd(line, q, Len(line))
                          ELSE 0)

keydq_value_re(line) == QuotedKeyMatch(line, "\"")
keysq_value_re(line) == QuotedKeyMatch(line, "'")

\* key_value_re: the characters a bare key may not start with, and the
\* characters [^,[\]{}:#\t] it may go on with.
KeyStartExcluded ==
  {"-", "?", ":", ",", ".", "[", "]", "{", "}", "#", "&", "*", "!", "|", ">",
   "'", "\"", "%", "@", Chr(96)} \cup Whitespace
KeyInnerExcluded == {",", "[", "]", "{", "}", ":", "#", TAB}

\* The lazy group (?:A|A#|:A)*? of key_value_re with A = [^,[\]{}:#\t]: from
\* position p, the first position at which the rest of the pattern matches
\* (0 if there is none).  The lookahead (?!< ) that follows the group never
\* fails, a space or a colon being the next character.
RECURSIVE KeyScan(_, _)
KeyScan(line, p) ==
  IF KeyTail(line, p).m THEN p
  ELSE IF p > Len(line) THEN 0
  ELSE IF line[p] \notin KeyInnerExcluded
    THEN IF p + 1 <= Len(line) /\ line[p + 1] = "#"
           THEN KeyScan(line, p + 2)
           ELSE KeyScan(line, p + 1)
  ELSE IF /\ line[p] = ":"
          /\ p + 1 <= Len(line)
          /\ line[p + 1] \notin KeyInnerExcluded
    THEN KeyScan(line, p + 2)
  ELSE 0

BareKeyGroups(line, p) ==
  IF p = 0 THEN NoMatch
  ELSE [m |-> TRUE, g1 |-> SubSeq(line, 1, p - 1), g2 |-> KeyTail(line, p).g2]

key_value_re(line) ==
  BareKeyGroups(line, IF line # << >> /\ line[1] \notin KeyStartExcluded
                        THEN KeyScan(line, 2)
                        ELSE 0)

\* The three searches of lines 354-358, in their order.
FirstMatch(dq, sq, bare) == IF dq.m THEN dq ELSE IF sq.m THEN sq ELSE bare

KeyMatch(line) ==
  FirstMatch(keydq_value_re(line), keysq_value_re(line), key_value_re(line))

AlNum ==
  DecDigits \cup {Ascii[k] : k \in 34..59} \cup {Ascii[k] : k \in 66..91}

\* The first position at or after i of s that holds no letter or digit.
RECURSIVE SkipAlNum(_, _)
SkipAlNum(s, i) ==
  IF i <= Len(s) /\ s[i] \in AlNum THEN SkipAlNum(s, i + 1) ELSE i

DirectiveGroups(line, i) ==
  IF line # << >> /\ line[1] = "%" /\ i > 2
    THEN [m |-> TRUE, g1 |-> SubSeq(line, 2, i - 1), g2 |-> Drop(line, i - 1)]
    ELSE NoMatch

\* directive_re: ^%([a-zA-Z0-9]+)(.*)$
directive_re(line) == DirectiveGroups(line, SkipAlNum(line, 2))

(***************************************************************************)
(* Exceptions, and the dicts and lists of the tree                         *)
(***************************************************************************)
\* An exception: its class, its message and, for a YAMLError, its lineno.
NoExc == [kind |-> "", msg |-> "", lineno |-> -1]
PyExc(kind, msg) == [kind |-> kind, msg |-> msg, lineno |-> -1]
\* YAMLError.__init__
YAMLError(message, lineno) ==
  [kind |-> "YAMLError", msg |-> message, lineno |-> lineno]

\* The text as one string, for a message.
RECURSIVE Str(_)
Str(s) == IF s = << >> THEN "" ELSE s[1] \o Str(Tail(s))

Last(q) == q[Len(q)]
Front(q) == SubSeq(q, 1, Len(q) - 1)

\* A heap object: a dict (its keys in insertion order, and their values) or
\* a list (its items in vals).
NewDict == [kind |-> "dict", keys |-> << >>, vals |-> << >>]
NewList == [kind |-> "list", keys |-> << >>, vals |-> << >>]

IsDict(heap, v) == v.t = "ref" /\ heap[v.n].kind = "dict"
IsList(heap, v) == v.t = "ref" /\ heap[v.n].kind = "list"

\* The position of the key in a dict's keys, 0 when it has no such key.
RECURSIVE KeyIndex(_, _, _)
KeyIndex(keys, key, i) ==
  IF i > Len(keys) THEN 0
  ELSE IF keys[i] = key THEN i
  ELSE KeyIndex(keys, key, i + 1)

DictSetAt(obj, key, v, i) ==
  IF i > 0 THEN [obj EXCEPT !.vals[i] = v]
  ELSE [obj EXCEPT !.keys = Append(@, key), !.vals = Append(@, v)]

\* dict.__setitem__: a key the dict holds keeps its place and takes the new
\* value, a new key goes last.
DictSet(obj, key, v) == DictSetAt(obj, key, v, KeyIndex(obj.keys, key, 1))

\* A frame f holds the fields of SimpleYAMLState, the locals line and indent
\* of load, the exception raised so far (exc) and how the loop body ended
\* (ctl: "next" for the next line, "break" for the break of line 292).
Throw(f, kind, msg) ==
  [f EXCEPT !.exc = IF kind = "YAMLError"
                      THEN YAMLError(msg, f.lineno)
                      ELSE PyExc(kind, msg)]

Raised(f) == f.exc.kind # ""

\* c[key] = v
SetItem(f, c, key, v) ==
  IF IsDict(f.heap, c) THEN [f EXCEPT !.heap[c.n] = DictSet(@, key, v)]
  ELSE IF IsList(f.heap, c)
    THEN Throw(f, "TypeError", "list indices must be integers or slices, not str")
  ELSE Throw(f, "TypeError", "object does not support item assignment")

\* c.append(v)
ListAppend(f, c, v) ==
  IF IsList(f.heap, c) THEN [f EXCEPT !.heap[c.n].vals = Append(@, v)]
  ELSE Throw(f, "AttributeError", "object has no attribute 'append'")

DictGetAt(obj, i) == IF i > 0 THEN Returns(obj.vals[i]) ELSE Raises("KeyError")

\* c[key]: the value, or the exception
GetItem(f, c, key) ==
  IF IsDict(f.heap, c)
    THEN DictGetAt(f.heap[c.n], KeyIndex(f.heap[c.n].keys, key, 1))
    ELSE Raises("TypeError")

\* The reference a new object on the heap gets, and the frame with the object.
NewRef(f) == PyRef(Len(f.heap) + 1)
Alloc(f, obj) == [f EXCEPT !.heap = Append(@, obj)]

(***************************************************************************)
(* SimpleYAML.parse_directive                                              *)
(*                                                                         *)
(* Its result is [f |-> the frame after the call, ret |-> the value        *)
(* returned].  The number a message formats is left out of the message.    *)
(***************************************************************************)
\* SimpleYAML.warning
warning(f, message) == [f EXCEPT !.warnings = Append(@, message)]

\* DirectiveVersion with the test of line 259 against 1.1 instead of 1.2.
DirectiveVersionWarnEarly(f, fl) ==
  IF ~fl.ok
    THEN [f |-> Throw(f, "YAMLError", "YAML version not parseable"),
          ret |-> FALSE]
  ELSE IF FloatGE(fl.v, 2, 0)
    THEN [f |-> Throw([f EXCEPT !.version = fl.v],
                      "YAMLError", "YAML version not supported"),
          ret |-> FALSE]
  ELSE IF FloatGE(fl.v, 11, -1)
    THEN [f |-> warning([f EXCEPT !.version = fl.v],
                        "YAML version probably not supported"),
          ret |-> TRUE]
  ELSE [f |-> [f EXCEPT !.version = fl.v], ret |-> TRUE]

\* DirectiveVersion without lines 257-258: no version is rejected.
DirectiveVersionNoReject(f, fl) ==
  IF ~fl.ok
    THEN [f |-> Throw(f, "YAMLError", "YAML version not parseable"),
          ret |-> FALSE]
  ELSE IF FloatGE(fl.v, 12, -1)
    THEN [f |-> warning([f EXCEPT !.version = fl.v],
                        "YAML version probably not supported"),
          ret |-> TRUE]
  ELSE [f |-> [f EXCEPT !.version = fl.v], ret |-> TRUE]

\* Lines 253-260: fl is float(args).
DirectiveVersion(f, fl) ==
  IF ~fl.ok
    THEN [f |-> Throw(f, "YAMLError", "YAML version not parseable"),
          ret |-> FALSE]
  ELSE IF FloatGE(fl.v, 2, 0)
    THEN [f |-> Throw([f EXCEPT !.version = fl.v],
                      "YAMLError", "YAML version not supported"),
          ret |-> FALSE]
  ELSE IF FloatGE(fl.v, 12, -1)
    THEN [f |-> warning([f EXCEPT !.version = fl.v],
                        "YAML version probably not supported"),
          ret |-> TRUE]
  ELSE [f |-> [f EXCEPT !.version = fl.v], ret |-> TRUE]

\* Lines 249-265
DirectiveArgs(f, directive, args) ==
  IF directive # << "Y", "A", "M", "L" >>
    THEN [f |-> warning(f, "Directive not supported"), ret |-> TRUE]
  ELSE IF args = << >> THEN [f |-> [f EXCEPT !.version = None], ret |-> TRUE]
  ELSE DirectiveVersion(f, float_(args))

DirectiveMatch(f, match) ==
  IF ~match.m THEN [f |-> f, ret |-> FALSE]
  ELSE DirectiveArgs(f, match.g1, strip(match.g2))

parse_directive(f) == DirectiveMatch(f, directive_re(f.line))

(***************************************************************************)
(* SimpleYAML.load: the body of the loop over the lines                    *)
(***************************************************************************)
\* PopLevels with an if for the while of line 312: one level is closed at
\* most.
PopLevelsOnce(f) ==
  IF f.indent_level = << >>
    THEN Throw(f, "IndexError", "list index out of range")
  ELSE IF Last(f.indent_level) > f.indent
    THEN IF f.current_level = << >>
           THEN Throw([f EXCEPT !.indent_level = Front(@)],
                      "IndexError", "pop from empty list")
           ELSE [f EXCEPT !.indent_level = Front(@),
                          !.current = Last(f.current_level),
                          !.current_level = Front(@),
                          !.last = None]
  ELSE f

\* PopLevels that never closes the outermost level (the while of line 312
\* with a test of the length before it).
RECURSIVE PopLevelsKeepBottom(_)
PopLevelsKeepBottom(f) ==
  IF f.indent_level = << >>
    THEN Throw(f, "IndexError", "list index out of range")
  ELSE IF Len(f.indent_level) > 1 /\ Last(f.indent_level) > f.indent
    THEN IF f.current_level = << >>
           THEN Throw([f EXCEPT !.indent_level = Front(@)],
                      "IndexError", "pop from empty list")
           ELSE PopLevelsKeepBottom([f EXCEPT !.indent_level = Front(@),
                                              !.current = Last(f.current_level),
                                              !.current_level = Front(@),
                                              !.last = None])
  ELSE f

\* Lines 312-317: close the levels indented more than this line.
RECURSIVE PopLevels(_)
PopLevels(f) ==
  IF f.indent_level = << >>
    THEN Throw(f, "IndexError", "list index out of range")
  ELSE IF Last(f.indent_level) > f.indent
    THEN IF f.current_level = << >>
           THEN Throw([f EXCEPT !.indent_level = Front(@)],
                      "IndexError", "pop from empty list")
           ELSE PopLevels([f EXCEPT !.indent_level = Front(@),
                                    !.current = Last(f.current_level),
                                    !.current_level = Front(@),
                                    !.last = None])
  ELSE f

\* LinkNew without the stores of lines 340, 345, 377 and 381: the new
\* container is in no other.
LinkNewNowhere(f, obj) == Alloc(f, obj)

\* Lines 340-341 and 345-346, 377-378 and 381-382: the new container obj
\* becomes the value of the pending key, or else the last item of the
\* current list.
LinkNew(f, obj) ==
  IF Truthy(f.last)
    THEN SetItem(Alloc(f, obj), f.current, f.last.s, NewRef(f))
    ELSE ListAppend(Alloc(f, obj), f.current, NewRef(f))

\* Lines 342-344 and 347-349: g is the frame once the new list is linked.
EnterList(f, g, list_indent) ==
  IF Raised(g) THEN g
  ELSE [g EXCEPT !.current_level = Append(@, f.current),
                 !.current = NewRef(f),
                 !.last = IF Truthy(f.last) THEN None ELSE @,
                 !.indent_level = Append(@, list_indent)]

\* Lines 336-349: a list marker indented under the current item.
PushList(f, list_indent) == EnterList(f, LinkNew(f, NewList), list_indent)

\* StripMarker without the sum of line 324: the indent stays the marker's.
StripMarkerKeepIndent(f, no_indent) == [f EXCEPT !.line = no_indent]

\* Lines 323-325: the marker and the whitespace after it leave the line.
StripMarker(f, no_indent) ==
  [f EXCEPT !.indent = @ + Len(f.line) - Len(no_indent), !.line = no_indent]

\* Lines 327-349: f is the frame at the marker (f.indent is list_indent), f1
\* the frame with the marker stripped.
MarkerLevel(f, f1) ==
  IF f.root = None
    THEN [Alloc(f1, NewList) EXCEPT !.root = NewRef(f1),
                                    !.current = NewRef(f1),
                                    !.indent_level = << f.indent >>]
  ELSE IF f.indent_level = << >>
    THEN Throw(f1, "IndexError", "list index out of range")
  ELSE IF f.indent = Last(f.indent_level) THEN f1
  ELSE PushList(f1, f.indent)

\* Lines 321-349: one list marker.
ListMarker(f) == MarkerLevel(f, StripMarker(f, lstrip(Tail(f.line))))

\* Lines 319-352: the loop over the list markers the line starts with.
RECURSIVE ListMarkers(_)
ListMarkers(f) ==
  IF Raised(f) THEN f
  ELSE IF f.line = << >>
    THEN Throw(f, "IndexError", "string index out of range")
  ELSE IF f.line[1] = "-" /\ (Len(f.line) = 1 \/ f.line[2] = " ")
    THEN ListMarkers(ListMarker(f))
  ELSE f

\* EnterDict without line 385: the indent of the new level is not recorded.
EnterDictNoIndent(f, g) ==
  IF Raised(g) THEN g
  ELSE [g EXCEPT !.current_level = Append(@, f.current),
                 !.current = NewRef(f)]

\* Lines 379-380 and 383-385: g is the frame once the new dict is linked.
EnterDict(f, g) ==
  IF Raised(g) THEN g
  ELSE [g EXCEPT !.current_level = Append(@, f.current),
                 !.current = NewRef(f),
                 !.indent_level = Append(@, f.indent)]

\* Lines 373-385: a key indented under the current item.
PushDict(f) == EnterDict(f, LinkNew(f, NewDict))

\* Lines 365-385: the mapping the key of this line goes to.
KeyLevel(f) ==
  IF f.root = None
    THEN [Alloc(f, NewDict) EXCEPT !.root = NewRef(f), !.current = NewRef(f)]
  ELSE IF f.indent_level = << >>
    THEN Throw(f, "IndexError", "list index out of range")
  ELSE IF f.indent = Last(f.indent_level) THEN f
  ELSE PushDict(f)

\* Lines 389 and 392: g is the frame once the key is stored.
SetLast(g, v) == IF Raised(g) THEN g ELSE [g EXCEPT !.last = v]

\* StoreDecoded without line 392: the pending key stays.
StoreDecodedKeepLast(f, key, d) ==
  IF d.exc # "" THEN Throw(f, d.exc, "")
  ELSE SetItem(f, f.current, key, d.v)

\* Lines 391-392: d is decode_value(value).
StoreDecoded(f, key, d) ==
  IF d.exc # "" THEN Throw(f, d.exc, "")
  ELSE SetLast(SetItem(f, f.current, key, d.v), None)

\* Lines 387-392: store the key, with None or with its decoded value.
StoreKey(f, key, value) ==
  IF value = << >>
    THEN SetLast(SetItem(f, f.current, key, None), PyStr(key))
    ELSE StoreDecoded(f, key, decode_value(value))

\* Lines 361-364: the value of the key line, "" when a comment follows the colon.
KeyValue(g2) == IF g2 # << >> /\ g2[1] = "#" THEN << >> ELSE g2

KeyStore(f1, key, value) == IF Raised(f1) THEN f1 ELSE StoreKey(f1, key, value)

\* Lines 360-392: a line that matched a key pattern.
KeyLine(f, match) == KeyStore(KeyLevel(f), match.g1, KeyValue(match.g2))

\* Lines 401-404: got is state.current[state.last].
ContinueWith(f, value, got) ==
  IF got.exc # "" THEN Throw(f, got.exc, "")
  ELSE IF got.v = None THEN SetItem(f, f.current, f.last.s, value)
  ELSE IF got.v.t = "str" /\ value.t = "str"
    THEN SetItem(f, f.current, f.last.s,
                 PyStr(got.v.s \o << " " >> \o value.s))
  ELSE IF value.t # "str"
    THEN Throw(f, "TypeError", "can only concatenate str to str")
  ELSE Throw(f, "TypeError", "unsupported operand type(s) for +=")

\* Lines 400-404: the line continues the value of the pending key.
Continuation(f, value) ==
  ContinueWith(f, value, GetItem(f, f.current, f.last.s))

\* ScalarValue without lines 408-409: a line that fits nowhere is dropped.
ScalarValueDropping(f, d) ==
  IF d.exc # "" THEN Throw(f, d.exc, "")
  ELSE IF f.root = None THEN [f EXCEPT !.root = d.v]
  ELSE IF Truthy(f.last) THEN Continuation(f, d.v)
  ELSE IF IsList(f.heap, f.current) THEN ListAppend(f, f.current, d.v)
  ELSE f

\* Lines 396-409: d is decode_value(line).
ScalarValue(f, d) ==
  IF d.exc # "" THEN Throw(f, d.exc, "")
  ELSE IF f.root = None THEN [f EXCEPT !.root = d.v]
  ELSE IF Truthy(f.last) THEN Continuation(f, d.v)
  ELSE IF IsList(f.heap, f.current) THEN ListAppend(f, f.current, d.v)
  ELSE Throw(f, "YAMLError", "Unparseable line '" \o Str(f.line) \o "'")

\* Lines 394-409: a line that matched no key pattern.
ScalarLine(f) == ScalarValue(f, decode_value(f.line))

\* Line 359
KeyOrScalarOn(f, match) ==
  IF match.m THEN KeyLine(f, match) ELSE ScalarLine(f)

\* Lines 354-409
KeyOrScalar(f) == KeyOrScalarOn(f, KeyMatch(f.line))

AfterMarkers(f) == IF Raised(f) THEN f ELSE KeyOrScalar(f)

\* Lines 312-409: a line that is not blank, a separator, a comment or a
\* directive.
ContentLine(f) == AfterMarkers(ListMarkers(PopLevels(f)))

DocumentSeparator == << "-", "-", "-" >>

\* The state of load at line 280, with the locals of the loop body: the line,
\* its indent, the exception raised and whether the loop goes on ("next") or
\* is left ("break").
Frame(st, line, indent) ==
  [lineno |-> st.lineno + 1, root |-> st.root,
   indent_level |-> st.indent_level, current_level |-> st.current_level,
   current |-> st.current, last |-> st.last, version |-> st.version,
   heap |-> st.heap, warnings |-> st.warnings,
   line |-> line, indent |-> indent, exc |-> NoExc, ctl |-> "next"]

\* Lines 305-306: pd is the result of parse_directive.
AfterDirective(pd) ==
  IF Raised(pd.f) \/ pd.ret THEN pd.f ELSE ContentLine(pd.f)

\* LoopIndented with the comment test of line 298 after the pops of lines
\* 312-317: a comment closes the levels indented more than it.
LoopIndentedPopFirst(f) ==
  IF f.line[1] = "#" THEN [PopLevels(f) EXCEPT !.exc = NoExc]
  ELSE IF f.indent = 0 /\ f.line[1] = "%" THEN AfterDirective(parse_directive(f))
  ELSE ContentLine(f)

\* Lines 298-409
LoopIndented(f) ==
  IF f.line[1] = "#" THEN f
  ELSE IF f.indent = 0 /\ f.line[1] = "%" THEN AfterDirective(parse_directive(f))
  ELSE ContentLine(f)

\* Lines 282-409: line is the line without its trailing whitespace.
LoopStripped(st, line) ==
  IF line = << >> THEN Frame(st, line, 0)
  ELSE IF line = DocumentSeparator
    THEN [Frame(st, line, 0) EXCEPT
            !.ctl = IF st.root # None THEN "break" ELSE "next"]
  ELSE LoopIndented(Frame(st, lstrip(line), Len(line) - Len(lstrip(line))))

\* Lines 280-409: the body of the loop for the line raw.
LoopBody(st, raw) == LoopStripped(st, rstrip(raw))

\* LoadExcept without lines 417-421: every exception propagates as it is.
LoadExceptAsIs(exc, lineno) == exc

\* Lines 414-421: the exception load raises for one raised in the loop.
LoadExcept(exc, lineno) ==
  IF exc.kind = "YAMLError" THEN exc
  ELSE YAMLError(exc.kind \o ": " \o exc.msg \o " (failed at line "
                   \o ToString(lineno) \o ")", lineno)

(***************************************************************************)
(* The input: load reads at most MaxLines lines, each one of Lines.        *)
(***************************************************************************)
MaxLines == 4

Indent(n) == [k \in 1..n |-> " "]

\* Lines starting at column 0.
TopLines ==
  { << "a", ":", " ", "1" >>, << "a", ":" >>, << "b", ":", " ", "x" >>,
    << "b", ":", " ", "0" >>, << "\"", "\"", ":" >>,
    << "-", " ", "x" >>, << "-", " ", "0" >>,
    << "-", " ", "a", ":", " ", "1" >>, << "-" >>,
    << "x" >>, << "1", "2" >>, << "~" >>,
    << "-", "-", "-" >>, << >>, << "#", " ", "c" >>,
    << "%", "Y", "A", "M", "L", " ", "1", ".", "2" >>,
    << "%", "Y", "A", "M", "L", " ", "2", ".", "0" >> }

\* Lines that also come indented.
NestedLines ==
  { << "a", ":", " ", "1" >>, << "b", ":", " ", "x" >>, << "b", ":" >>,
    << "-", " ", "x" >>, << "x" >>, << "1", "2" >> }

Lines == TopLines \cup { Indent(2) \o c : c \in NestedLines }

(***************************************************************************)
(* The state of one call of load                                           *)
(***************************************************************************)
VARIABLES
  fh,             \* the lines read from the stream so far
  lineno, root, indent_level, current_level, current, last, version,
                  \* the fields of the SimpleYAMLState
  heap,           \* the dicts and lists created so far
  warnings,       \* the messages given to warning
  pc,             \* "loop": in the loop; "call": decode_value is called;
                  \* "returned"; "raised"
  result,         \* the value returned
  ex,             \* the exception raised in the try block
  error,          \* the exception load raises
  text,           \* the argument s of a call of decode_value on its own
  decoded,        \* what that call returns or raises
  calls,          \* the calls of load that run side by side: for each one
                  \* its stream, its position, its outcome and the
                  \* SimpleYAMLState object it created
  regions,        \* Sequence.regions of a memory map
  junctions       \* the number of entries of reset_junctions main has applied

vars == << fh, lineno, root, indent_level, current_level, current, last,
           version, heap, warnings, pc, result, ex, error, text, decoded,
           calls, regions, junctions >>

State ==
  [lineno |-> lineno, root |-> root, indent_level |-> indent_level,
   current_level |-> current_level, current |-> current, last |-> last,
   version |-> version, heap |-> heap, warnings |-> warnings]

\* Lines 268-275
Init ==
  /\ fh = << >>
  /\ lineno = -1
  /\ root = None
  /\ indent_level = << 0 >>
  /\ current_level = << None >>
  /\ current = None
  /\ last = None
  /\ version = None
  /\ heap = << >>
  /\ warnings = << >>
  /\ pc = "loop"
  /\ result = None
  /\ ex = NoExc
  /\ error = NoExc
  /\ text = << >>
  /\ decoded = Returns(None)
  /\ calls = << >>
  /\ regions = << >>
  /\ junctions = 0

\* The state of load before the first line (lines 268-275).
InitialState ==
  [lineno |-> -1, root |-> None, indent_level |-> << 0 >>,
   current_level |-> << None >>, current |-> None, last |-> None,
   version |-> None, heap |-> << >>, warnings |-> << >>]

\* The step of the loop for the line raw: f is the frame the body ends with.
LoopStep(f, raw) ==
  /\ fh' = Append(fh, raw)
  /\ lineno' = f.lineno
  /\ root' = f.root
  /\ indent_level' = f.indent_level
  /\ current_level' = f.current_level
  /\ current' = f.current
  /\ last' = f.last
  /\ version' = f.version
  /\ heap' = f.heap
  /\ warnings' = f.warnings
  /\ pc' = IF Raised(f) THEN "raised"
           ELSE IF f.ctl = "break" THEN "returned" ELSE "loop"
  /\ result' = IF ~Raised(f) /\ f.ctl = "break" THEN f.root ELSE None
  /\ ex' = f.exc
  /\ error' = IF Raised(f) THEN LoadExcept(f.exc, f.lineno) ELSE NoExc
  /\ UNCHANGED << text, decoded, calls, regions, junctions >>

\* Lines 279-421: load reads one more line and runs the body of the loop; an
\* exception ends the call (414-421), a break returns the root (423).
LoadLine ==
  /\ pc = "loop"
  /\ Len(fh) < MaxLines
  /\ \E raw \in Lines : LoopStep(LoopBody(State, raw), raw)

\* Lines 279 and 423: the stream has no more lines, load returns the root.
LoadReturn ==
  /\ pc = "loop"
  /\ pc' = "returned"
  /\ result' = root
  /\ UNCHANGED << fh, lineno, root, indent_level, current_level, current,
                  last, version, heap, warnings, ex, error, text, decoded,
                  calls, regions, junctions >>

Next == LoadLine \/ LoadReturn

Spec == Init /\ [][Next]_vars

(***************************************************************************)
(* The same call of load on documents with directives: the lines are drawn *)
(* from DirectiveLines.                                                    *)
(***************************************************************************)
DirectiveLines ==
  { << "%", "Y", "A", "M", "L", " ", "1", ".", "0" >>,
    << "%", "Y", "A", "M", "L", " ", "1", ".", "1" >>,
    << "%", "Y", "A", "M", "L", " ", "1", ".", "2" >>,
    << "%", "Y", "A", "M", "L", " ", "1", ".", "9" >>,
    << "%", "Y", "A", "M", "L", " ", "2", ".", "0" >>,
    << "%", "Y", "A", "M", "L", " ", "x" >>,
    << "%", "Y", "A", "M", "L" >>,
    << "%", "F", "O", "O", " ", "b", "a", "r" >>,
    << >>, << "#", " ", "c" >>, << " ", " ", "#", " ", "c" >>,
    << "a", ":" >>, << " ", " ", "b", ":", " ", "x" >>, << " ", " ", "x" >> }

\* Lines 279-421, as LoadLine.
LoadDirectiveLine ==
  /\ pc = "loop"
  /\ Len(fh) < MaxLines
  /\ \E raw \in DirectiveLines : LoopStep(LoopBody(State, raw), raw)

NextDirective == LoadDirectiveLine \/ LoadReturn

SpecDirective == Init /\ [][NextDirective]_vars

(***************************************************************************)
(* A call of decode_value on its own (lines 138-234): the argument is one  *)
(* of the texts load passes (lines 391 and 395), which are not empty and   *)
(* have no white space at either end.                                      *)
(***************************************************************************)
MaxDigits == 4
MaxGroups == 2
MaxBody == 3

\* The texts of up to n characters of chars.
RECURSIVE Texts(_, _)
Texts(chars, n) ==
  IF n = 0 THEN {<< >>}
  ELSE {<< >>} \cup {<< c >> \o r : c \in chars, r \in Texts(chars, n - 1)}

IntChars == {"0", "1", "7", "8", "x", "b", "F", "_", "-"}
IntTexts == Texts(IntChars, MaxDigits) \ {<< >>}

Signs == {<< >>, << "-" >>, << "+" >>}
FirstGroups == {<< "0" >>, << "1" >>, << "1", "2" >>}
LaterGroups ==
  {<< "0" >>, << "5" >>, << "0", "7" >>, << "3", "0" >>, << "5", "9" >>,
   << "6", "0" >>}

\* Up to n groups, each after a colon.
RECURSIVE GroupTails(_)
GroupTails(n) ==
  IF n = 0 THEN {<< >>}
  ELSE {<< >>} \cup
       {<< ":" >> \o g \o r : g \in LaterGroups, r \in GroupTails(n - 1)}

Base60Texts ==
  {sg \o g \o r :
     sg \in Signs, g \in FirstGroups, r \in GroupTails(MaxGroups) \ {<< >>}}

QuoteChars == {"1", "~", "n", "#", " ", "'", "\\"}
QuotedTexts ==
  {<< q >> \o b \o << q >> :
     q \in {"'", "\""}, b \in Texts(QuoteChars, MaxBody)}

EscapeTexts == {<< "\"", "\\", c, "\"" >> : c \in escape_keys}

WordTexts ==
  { << "t", "r", "u", "e" >>, << "f", "a", "l", "s", "e" >>, << "T", "r", "u", "e" >>, << "T", "R", "U", "E" >>,
    << "F", "a", "l", "s", "e" >>, << "y", "e", "s" >>, << "n", "o" >>, << "o", "n" >>,
    << "o", "f", "f" >>, << "~" >>, << "n", "u", "l", "l" >>, << "N", "u", "l", "l" >>,
    << "N", "U", "L", "L" >>, << "n", "u", "l" >>, << "x" >>, << "1", ".", "5" >>,
    << ".", "i", "n", "f" >>, << ".", "n", "a", "n" >> }

ExampleTexts ==
  { << "0", "x", "1", "F" >>, << "0", "b", "1", "0", "1" >>,
    << "0", "1", "0" >>, << "1", "2", "3" >>,
    << "1", "_", "0", "0", "0" >>, << "0", "x", "_", "1", "F" >>,
    << "1", ":", "3", "0" >>, << "-", "1", ":", "3", "0" >>,
    << "1", ":", "3", "0", ":", "0", "0" >>, << "'", "1", "2", "3", "'" >>,
    << "\"", "t", "r", "u", "e", "\"" >>, << "'", "~", "'" >>,
    << "'", "a", " ", "#", "b", "'" >>, << "'", "i", "t", "'", "'", "s", "'" >>,
    << "\"", "a", "\\", "n", "b", "\"" >>, << "\"", "\\", "x", "4", "1", "\"" >>,
    << "\"", "\\", "u", "0", "0", "4", "1", "\"" >>, << "\"", "\\", "U", "0", "0", "0", "0", "0", "0", "4", "1", "\"" >>,
    << "\"", "\\", "\\", "n", "\"" >>, << "\"", "a", "\\", "\\", "\"" >> }

DecodeTexts ==
  IntTexts \cup Base60Texts \cup QuotedTexts \cup EscapeTexts \cup WordTexts
    \cup ExampleTexts

InitDecode ==
  /\ fh = << >>
  /\ lineno = -1
  /\ root = None
  /\ indent_level = << 0 >>
  /\ current_level = << None >>
  /\ current = None
  /\ last = None
  /\ version = None
  /\ heap = << >>
  /\ warnings = << >>
  /\ pc = "call"
  /\ result = None
  /\ ex = NoExc
  /\ error = NoExc
  /\ text \in DecodeTexts
  /\ decoded = Returns(None)
  /\ calls = << >>
  /\ regions = << >>
  /\ junctions = 0

\* Lines 138-234: the call returns a value or raises.
DecodeValue ==
  /\ pc = "call"
  /\ decoded' = decode_value(text)
  /\ pc' = IF decode_value(text).exc = "" THEN "returned" ELSE "raised"
  /\ UNCHANGED << fh, lineno, root, indent_level, current_level, current,
                  last, version, heap, warnings, result, ex, error, text,
                  calls, regions, junctions >>

NextDecode == DecodeValue

SpecDecode == InitDecode /\ [][NextDecode]_vars

(***************************************************************************)
(* The same call of load on documents with trailing comments: the lines    *)
(* are drawn from CommentLines.                                            *)
(***************************************************************************)
CommentLines ==
  { << "k", ":", " ", "1", "2", " ", "#", " ", "c" >>, << "k", ":", " ", "x", " ", " ", "#", " ", "c" >>,
    << "k", ":", " ", "#", " ", "c" >>, << "k", ":", " ", " ", " ", "#", " ", "c" >>,
    << "j", ":", " ", "t", "r", "u", "e", " ", "#", " ", "c" >>, << "-", " ", "1", "2", " ", "#", " ", "c" >>,
    << "-", " ", "x", " ", "#", "c" >>, << " ", " ", "x", " ", "#", " ", "c" >>,
    << "k", ":", " ", "1", "#", "2" >>, << "j", ":", " ", "'", "a", " ", "#", "b", "'" >>,
    << "k", ":", " ", "a", " ", "#", "b", " ", "#", " ", "c" >>, << "j", ":" >>,
    << " ", " ", "-", " ", "~", " ", "#", " ", "c" >>, << "k", ":", " ", "0", " ", "#", " ", "c" >> }

\* Lines 279-421, as LoadLine.
LoadCommentLine ==
  /\ pc = "loop"
  /\ Len(fh) < MaxLines
  /\ \E raw \in CommentLines : LoopStep(LoopBody(State, raw), raw)

NextComment == LoadCommentLine \/ LoadReturn

SpecComment == Init /\ [][NextComment]_vars

(***************************************************************************)
(* Two calls of load side by side, each on its own stream: a step is one   *)
(* pass of the loop of one of the calls.                                   *)
(***************************************************************************)
MaxCallLines == 2

Callers == {1, 2}

CallLines ==
  { << "a", ":", " ", "1" >>, << "a", ":" >>, << "-", " ", "x" >>,
    << " ", " ", "b", ":", " ", "x" >>, << "x" >>, << "-", "-", "-" >> }

\* The fields of SimpleYAMLState in the frame f.
StateFields(f) ==
  [lineno |-> f.lineno, root |-> f.root, indent_level |-> f.indent_level,
   current_level |-> f.current_level, current |-> f.current, last |-> f.last,
   version |-> f.version, heap |-> f.heap, warnings |-> f.warnings]

\* The SimpleYAMLState object of every call is the one of the first call.
StateOfFirst(i) == 1

\* Line 268: the SimpleYAMLState object call i works on is the one it made.
StateOf(i) == i

\* Lines 268-275 for each call.
InitCalls ==
  /\ fh = << >>
  /\ lineno = -1
  /\ root = None
  /\ indent_level = << 0 >>
  /\ current_level = << None >>
  /\ current = None
  /\ last = None
  /\ version = None
  /\ heap = << >>
  /\ warnings = << >>
  /\ pc = "calls"
  /\ result = None
  /\ ex = NoExc
  /\ error = NoExc
  /\ text = << >>
  /\ decoded = Returns(None)
  /\ calls = [i \in Callers |->
                [fh |-> << >>, pc |-> "loop", result |-> None,
                 error |-> NoExc, st |-> InitialState]]
  /\ regions = << >>
  /\ junctions = 0

\* The step of the loop of call i for the line raw: f is the frame the body
\* ends with.
CallStep(i, f, raw) ==
  /\ calls' = [calls EXCEPT
       ![StateOf(i)].st = StateFields(f),
       ![i].fh = Append(@, raw),
       ![i].pc = IF Raised(f) THEN "raised"
                 ELSE IF f.ctl = "break" THEN "returned" ELSE "loop",
       ![i].result = IF ~Raised(f) /\ f.ctl = "break" THEN f.root ELSE None,
       ![i].error = IF Raised(f) THEN LoadExcept(f.exc, f.lineno) ELSE NoExc]
  /\ UNCHANGED << fh, lineno, root, indent_level, current_level, current,
                  last, version, heap, warnings, pc, result, ex, error, text,
                  decoded, regions, junctions >>

\* Lines 279-421 in call i.
CallLine(i) ==
  /\ calls[i].pc = "loop"
  /\ Len(calls[i].fh) < MaxCallLines
  /\ \E raw \in CallLines :
       CallStep(i, LoopBody(calls[StateOf(i)].st, raw), raw)

\* Lines 279 and 423 in call i.
CallReturn(i) ==
  /\ calls[i].pc = "loop"
  /\ calls' = [calls EXCEPT ![i].pc = "returned",
                            ![i].result = calls[StateOf(i)].st.root]
  /\ UNCHANGED << fh, lineno, root, indent_level, current_level, current,
                  last, version, heap, warnings, pc, result, ex, error, text,
                  decoded, regions, junctions >>

LoadCallLine == \E i \in Callers : CallLine(i)
LoadCallReturn == \E i \in Callers : CallReturn(i)

NextCalls == LoadCallLine \/ LoadCallReturn

SpecCalls == InitCalls /\ [][NextCalls]_vars

(***************************************************************************)
(* The same call of load on documents with blocks nested two deep: the     *)
(* lines are drawn from NestLines.                                         *)
(***************************************************************************)
NestLines ==
  { << "a", ":" >>, << "a", ":", " ", "1" >>, << "-", " ", "x" >>,
    << "x" >>, << "-" >>, << "-", " ", "a", ":", " ", "1" >>,
    << " ", " ", "b", ":" >>, << " ", " ", "b", ":", " ", "x" >>, << " ", " ", "-", " ", "x" >>,
    << " ", " ", "x" >>, << " ", " ", "c", ":", " ", "1" >>, << " ", " ", " ", " ", "c", ":", " ", "1" >>,
    << " ", " ", " ", " ", "-", " ", "x" >>, << "b", ":", " ", "x" >>,
    << " ", " ", "-", " ", "a", ":", " ", "1" >> }

\* Lines 279-421, as LoadLine.
LoadNestLine ==
  /\ pc = "loop"
  /\ Len(fh) < MaxLines
  /\ \E raw \in NestLines : LoopStep(LoopBody(State, raw), raw)

NextNest == LoadNestLine \/ LoadReturn

SpecNest == Init /\ [][NextNest]_vars

(***************************************************************************)
(* memory_layout: the outlines of the regions of a Sequence.  main adds    *)
(* the regions in the order of their addresses, applies the junctions of   *)
(* the layout with set_outline_lower and set_outline_upper, and then adds  *)
(* the automatic discontinuities.                                          *)
(***************************************************************************)
MaxJunctions == 2
MaxRegions == 3
Addresses == 0..3
Sizes == {1, 2}
Outlines == {"solid", "dashed", "double", "none"}

\* The address None of match_address: all the regions.
AllRegions == -1

\* MemoryRegion.__init__
MemoryRegion(address, size) ==
  [address |-> address, size |-> size, outline_lower |-> "solid",
   outline_upper |-> "solid", discontinuity |-> FALSE]

\* DiscontinuityRegion, a MemoryRegion of another class.
DiscontinuityRegion(address, size) ==
  [MemoryRegion(address, size) EXCEPT !.discontinuity = TRUE]

\* MemoryRegion.end
RegionEnd(region) == region.address + region.size

\* The sequences main builds: regions in the order of their addresses, each
\* address once.
RECURSIVE Layouts(_, _)
Layouts(n, above) ==
  IF n = 0 THEN { << >> }
  ELSE UNION { { << MemoryRegion(a, s) >> \o rest :
                   s \in Sizes, rest \in Layouts(n - 1, a + 1) } :
               a \in { x \in Addresses : x >= above } }

\* The outline the neighbour gets across the junction.
Facing(outline) == IF outline = "solid" THEN "solid" ELSE "none"

\* Sequence.match_address for an address: the index of the first region at
\* the address, 0 when there is none.
RECURSIVE match_address(_, _, _)
match_address(rs, address, index) ==
  IF index > Len(rs) THEN 0
  ELSE IF rs[index].address = address THEN index
  ELSE match_address(rs, address, index + 1)

\* The body of the loop of set_outline_lower for the region at index.
LowerAt(rs, index, outline) ==
  IF index # 1
    THEN [rs EXCEPT ![index].outline_lower = outline,
                    ![index - 1].outline_upper = Facing(outline)]
    ELSE [rs EXCEPT ![index].outline_lower = outline]

\* The body of the loop of set_outline_upper for the region at index.
UpperAt(rs, index, outline) ==
  IF index # Len(rs)
    THEN [rs EXCEPT ![index].outline_upper = outline,
                    ![index + 1].outline_lower = Facing(outline)]
    ELSE [rs EXCEPT ![index].outline_upper = outline]

RECURSIVE LowerAll(_, _, _)
LowerAll(rs, index, outline) ==
  IF index > Len(rs) THEN rs
  ELSE LowerAll(LowerAt(rs, index, outline), index + 1, outline)

RECURSIVE UpperAll(_, _, _)
UpperAll(rs, index, outline) ==
  IF index > Len(rs) THEN rs
  ELSE UpperAll(UpperAt(rs, index, outline), index + 1, outline)

\* Sequence.set_outline_lower where the address matches.
set_outline_lower(rs, address, outline) ==
  IF address = AllRegions THEN LowerAll(rs, 1, outline)
  ELSE LowerAt(rs, match_address(rs, address, 1), outline)

\* Sequence.set_outline_upper where the address matches.
set_outline_upper(rs, address, outline) ==
  IF address = AllRegions THEN UpperAll(rs, 1, outline)
  ELSE UpperAt(rs, match_address(rs, address, 1), outline)

\* match_address raises RuntimeError for an address of no region.
Matches(rs, address) ==
  address = AllRegions \/ match_address(rs, address, 1) # 0

\* Sequence.add_discontinuities from the region at index on; last_end is 0
\* for None, which the test of the loop does not tell from 0.
RECURSIVE add_discontinuities(_, _, _)
add_discontinuities(rs, index, last_end) ==
  IF index > Len(rs) THEN << >>
  ELSE IF last_end # 0 /\ last_end # rs[index].address
    THEN << DiscontinuityRegion(last_end, rs[index].address - last_end),
            rs[index] >>
         \o add_discontinuities(rs, index + 1, RegionEnd(rs[index]))
  ELSE << rs[index] >>
       \o add_discontinuities(rs, index + 1, RegionEnd(rs[index]))

InitOutline ==
  /\ fh = << >>
  /\ lineno = -1
  /\ root = None
  /\ indent_level = << 0 >>
  /\ current_level = << None >>
  /\ current = None
  /\ last = None
  /\ version = None
  /\ heap = << >>
  /\ warnings = << >>
  /\ pc = "junctions"
  /\ result = None
  /\ ex = NoExc
  /\ error = NoExc
  /\ text = << >>
  /\ decoded = Returns(None)
  /\ calls = << >>
  /\ regions \in UNION { Layouts(n, 0) : n \in 2..MaxRegions }
  /\ junctions = 0

\* One call of a setter: rs is the list of regions it leaves.  For an
\* address of no region match_address raises RuntimeError (line 278; the
\* message ends with the formatted address).
JunctionStep(address, rs) ==
  /\ pc = "junctions"
  /\ junctions < MaxJunctions
  /\ junctions' = junctions + 1
  /\ regions' = IF Matches(regions, address) THEN rs ELSE regions
  /\ pc' = IF Matches(regions, address) THEN "junctions" ELSE "raised"
  /\ error' = IF Matches(regions, address) THEN NoExc
              ELSE PyExc("RuntimeError", "Cannot find region for address")
  /\ UNCHANGED << fh, lineno, root, indent_level, current_level, current,
                  last, version, heap, warnings, result, ex, text, decoded,
                  calls >>

\* Sequence.set_outline_lower(address, outline)
SetOutlineLower ==
  \E address \in Addresses \cup {AllRegions}, outline \in Outlines :
    JunctionStep(address, set_outline_lower(regions, address, outline))

\* Sequence.set_outline_upper(address, outline)
SetOutlineUpper ==
  \E address \in Addresses \cup {AllRegions}, outline \in Outlines :
    JunctionStep(address, set_outline_upper(regions, address, outline))

\* Sequence.add_discontinuities(), once the junctions are applied.
AddDiscontinuities ==
  /\ pc = "junctions"
  /\ regions' = add_discontinuities(regions, 1, 0)
  /\ pc' = "discontinuities"
  /\ UNCHANGED << fh, lineno, root, indent_level, current_level, current,
                  last, version, heap, warnings, result, ex, error, text,
                  decoded, calls, junctions >>

NextOutline == SetOutlineLower \/ SetOutlineUpper \/ AddDiscontinuities

SpecOutline == InitOutline /\ [][NextOutline]_vars

(***************************************************************************)
(* The lines of a document, as load classifies them (lines 281-358)        *)
(***************************************************************************)
Content(raw) == lstrip(rstrip(raw))
Column(raw) == Len(rstrip(raw)) - Len(Content(raw))

IsBlank(raw) == rstrip(raw) = << >>
IsSeparator(raw) == rstrip(raw) = DocumentSeparator
IsComment(raw) == ~IsBlank(raw) /\ Content(raw)[1] = "#"
IsDirective(raw) ==
  /\ ~IsBlank(raw)
  /\ Column(raw) = 0
  /\ Content(raw)[1] = "%"
  /\ directive_re(Content(raw)).m

\* A line that reaches the pops, the list markers and the key patterns.
IsContent(raw) ==
  ~IsBlank(raw) /\ ~IsSeparator(raw) /\ ~IsComment(raw) /\ ~IsDirective(raw)

StartsWithMarker(line) ==
  line # << >> /\ line[1] = "-" /\ (Len(line) = 1 \/ line[2] = " ")

IsItem(raw) == IsContent(raw) /\ StartsWithMarker(Content(raw))
IsKey(raw) ==
  IsContent(raw) /\ ~StartsWithMarker(Content(raw)) /\ KeyMatch(Content(raw)).m
IsBareText(raw) ==
  IsContent(raw) /\ ~StartsWithMarker(Content(raw)) /\ ~KeyMatch(Content(raw)).m

IsBareKey(raw) ==
  /\ IsKey(raw)
  /\ ~keydq_value_re(Content(raw)).m
  /\ ~keysq_value_re(Content(raw)).m

KeyOf(raw) == KeyMatch(Content(raw)).g1
ValueOf(raw) == KeyValue(KeyMatch(Content(raw)).g2)
ItemOf(raw) == lstrip(Tail(Content(raw)))

\* The value a key line gives its key.
ExpectedValue(raw) ==
  IF ValueOf(raw) = << >> THEN None ELSE decode_value(ValueOf(raw)).v

\* An item line "- v" with v a plain scalar.
IsScalarItem(raw) ==
  /\ IsItem(raw)
  /\ ItemOf(raw) # << >>
  /\ ItemOf(raw)[1] \notin {"\"", "'"}
  /\ ~StartsWithMarker(ItemOf(raw))
  /\ ~KeyMatch(ItemOf(raw)).m

SameColumn(doc) == \A i \in 1..Len(doc) : Column(doc[i]) = Column(doc[1])

DistinctKeys(doc) ==
  \A i, j \in 1..Len(doc) : i # j => KeyOf(doc[i]) # KeyOf(doc[j])

Kind(h, v) == IF v.t = "ref" THEN h[v.n].kind ELSE v.t

(***************************************************************************)
(* Flat mappings and flat sequences                                        *)
(***************************************************************************)
\* Lines "k: v" with distinct bare keys and values that decode, all starting
\* at the same column.
FlatMapping(doc) ==
  /\ doc # << >>
  /\ \A i \in 1..Len(doc) :
       /\ IsBareKey(doc[i])
       /\ ValueOf(doc[i]) # << >>
       /\ decode_value(ValueOf(doc[i])).exc = ""
  /\ SameColumn(doc)
  /\ DistinctKeys(doc)

\* C1: load of a document of n >= 1 lines "k_i: v_i" with distinct bare keys,
\* all at the same column c >= 0, raises no error and returns a Mapping whose
\* keys are k_1..k_n in file order, each with the decoded value of v_i.
C1_FlatMappingAtAnyColumn ==
  FlatMapping(fh) =>
    /\ pc # "raised"
    /\ pc = "returned" =>
         /\ IsDict(heap, result)
         /\ heap[result.n].keys = [i \in 1..Len(fh) |-> KeyOf(fh[i])]
         /\ heap[result.n].vals = [i \in 1..Len(fh) |-> ExpectedValue(fh[i])]

\* Lines "- v" with v a plain scalar, all dashes at the same column.
FlatSequence(doc) ==
  /\ doc # << >>
  /\ \A i \in 1..Len(doc) : IsScalarItem(doc[i])
  /\ SameColumn(doc)

\* C2: load of a document of n >= 1 lines "- v_i", v_i a plain scalar, all
\* dashes at the same column c >= 0, returns a Sequence of exactly n elements,
\* element i being the decoded v_i, in file order.
C2_FlatSequenceInOrder ==
  FlatSequence(fh) =>
    /\ pc # "raised"
    /\ pc = "returned" =>
         /\ IsList(heap, result)
         /\ heap[result.n].vals =
              [i \in 1..Len(fh) |-> decode_value(ItemOf(fh[i])).v]

(***************************************************************************)
(* Nested blocks and folded scalars                                        *)
(***************************************************************************)
\* Key lines at one column, the last of them (line p) with an empty value,
\* then a block of more-indented lines at one column: key lines with distinct
\* keys, or item lines.
NestedBlockDoc(doc, p) ==
  /\ p < Len(doc)
  /\ \A i \in 1..p : IsKey(doc[i]) /\ Column(doc[i]) = Column(doc[1])
  /\ \A i \in 1..(p - 1) : ValueOf(doc[i]) # << >>
  /\ ValueOf(doc[p]) = << >>
  /\ DistinctKeys(SubSeq(doc, 1, p))
  /\ \A i \in (p + 1)..Len(doc) :
       Column(doc[i]) = Column(doc[p + 1]) /\ Column(doc[i]) > Column(doc[p])
  /\ \/ /\ \A i \in (p + 1)..Len(doc) : IsKey(doc[i])
        /\ DistinctKeys(SubSeq(doc, p + 1, Len(doc)))
     \/ \A i \in (p + 1)..Len(doc) : IsScalarItem(doc[i])

\* The value v is the container the block describes.
BlockValue(h, v, block) ==
  IF IsKey(block[1])
    THEN /\ IsDict(h, v)
         /\ h[v.n].keys = [i \in 1..Len(block) |-> KeyOf(block[i])]
         /\ h[v.n].vals = [i \in 1..Len(block) |-> ExpectedValue(block[i])]
    ELSE /\ IsList(h, v)
         /\ h[v.n].vals =
              [i \in 1..Len(block) |-> decode_value(ItemOf(block[i])).v]

\* C3: a key line with empty value followed by a block of more-indented key
\* lines gives that key a Mapping holding exactly those keys; followed by a
\* block of more-indented dashed items, a Sequence holding exactly those
\* items in order; the Null placeholder is replaced and no other key of the
\* enclosing mapping changes.
C3_NestedBlockUnderKey ==
  \A p \in 1..Len(fh) :
    NestedBlockDoc(fh, p) =>
      /\ pc # "raised"
      /\ pc = "returned" =>
           /\ IsDict(heap, result)
           /\ heap[result.n].keys = [i \in 1..p |-> KeyOf(fh[i])]
           /\ \A i \in 1..(p - 1) :
                heap[result.n].vals[i] = ExpectedValue(fh[i])
           /\ BlockValue(heap, heap[result.n].vals[p],
                         SubSeq(fh, p + 1, Len(fh)))

\* A line of a key that is not empty, with empty value, then bare-text lines
\* at its column or deeper.
FoldedDoc(doc) ==
  /\ Len(doc) >= 2
  /\ IsKey(doc[1])
  /\ KeyOf(doc[1]) # << >>
  /\ ValueOf(doc[1]) = << >>
  /\ \A i \in 2..Len(doc) :
       IsBareText(doc[i]) /\ Column(doc[i]) >= Column(doc[1])

\* The texts of the lines i.. of the document, joined by single spaces.
RECURSIVE JoinTexts(_, _)
JoinTexts(doc, i) ==
  IF i >= Len(doc) THEN Content(doc[i])
  ELSE Content(doc[i]) \o << " " >> \o JoinTexts(doc, i + 1)

\* C4: for a key line with empty value followed by n >= 1 bare-text
\* continuation lines, load succeeds and the final value of the key is one
\* String, the continuation texts joined by single spaces, whatever each text
\* would decode to on its own.
C4_FoldedScalarIsString ==
  FoldedDoc(fh) =>
    /\ pc # "raised"
    /\ pc = "returned" =>
         /\ IsDict(heap, result)
         /\ heap[result.n].keys = << KeyOf(fh[1]) >>
         /\ heap[result.n].vals = << PyStr(JoinTexts(fh, 2)) >>

(***************************************************************************)
(* Errors                                                                  *)
(***************************************************************************)
\* C5: a bare-text line processed while the current container is a Mapping
\* and no pending key is set makes load raise YAMLError, with the 0-based
\* index of that line in the input as its line number (every earlier blank,
\* comment, directive and separator line counted).
C5_BareTextInMappingRaises ==
  (/\ fh # << >>
   /\ IsBareText(Last(fh))
   /\ IsDict(heap, current)
   /\ ~Truthy(last)) =>
    /\ pc = "raised"
    /\ error.kind = "YAMLError"
    /\ error.lineno = Len(fh) - 1

\* A bare-text line raised in a mapping, after a line that is not content.
C5_Witness ==
  /\ pc = "raised"
  /\ ex.kind = "YAMLError"
  /\ IsBareText(Last(fh))
  /\ IsDict(heap, current)
  /\ last = None
  /\ \E i \in 1..(Len(fh) - 1) : ~IsContent(fh[i])
  /\ error.lineno = 2

\* C6: load returns a value or raises YAMLError and no other kind: another
\* exception raised for a line is wrapped into a YAMLError with the number of
\* that line, a YAMLError raised in the loop propagates as it is, and in both
\* cases nothing is returned and no later line is processed.
C6_OnlyParseError ==
  /\ pc = "raised" =>
       /\ error.kind = "YAMLError"
       /\ error.lineno = Len(fh) - 1
       /\ ex.kind # ""
       /\ ex.kind = "YAMLError" => error = ex
       /\ result = None
       /\ ~ENABLED Next
  /\ pc # "raised" => error = NoExc /\ ex = NoExc

\* An exception other than YAMLError raised on the third line, with a tree
\* partly built.
C6_Witness ==
  /\ pc = "raised"
  /\ ex.kind \notin {"", "YAMLError"}
  /\ Len(fh) = 3
  /\ root.t = "ref"
  /\ heap[root.n].vals # << >>

(***************************************************************************)
(* The document separator and the root                                     *)
(***************************************************************************)
\* C7: a separator line met after content has been parsed ends processing,
\* load returns the tree built up to that line; a separator line met before
\* any content (after blank, comment, directive or separator lines only) is
\* ignored and parsing continues.
C7_SeparatorEndsDocument ==
  (fh # << >> /\ IsSeparator(Last(fh))) =>
    IF \E i \in 1..(Len(fh) - 1) : IsContent(fh[i])
      THEN pc = "returned" /\ result = root
      ELSE pc = "loop" /\ root = None /\ heap = << >>

\* C8: once the first content line has established root (a Mapping, a
\* Sequence, or a scalar of any kind, Null included), no later line changes
\* the kind of root: a line that would need another kind ends in YAMLError
\* instead.
C8_RootKindFixed ==
  [][(pc = "loop" /\ \E i \in 1..Len(fh) : IsContent(fh[i]))
       => (pc' = "raised" \/ Kind(heap', root') = Kind(heap, root))]_vars

(***************************************************************************)
(* The stacks                                                              *)
(***************************************************************************)
\* C9: in every state load reaches at a line boundary, the indent stack and
\* the container stack have the same length.
C9_StacksParallel == Len(indent_level) = Len(current_level)

\* A nested container was pushed and popped again.
C9_Witness ==
  /\ pc = "loop"
  /\ Len(fh) = 3
  /\ Len(indent_level) = 1
  /\ Len(heap) = 2
  /\ current = root

(***************************************************************************)
(* Duplicate keys                                                          *)
(***************************************************************************)
\* Key lines at one column, one key on more than one of them.
DuplicateKeyDoc(doc) ==
  /\ \A i \in 1..Len(doc) : IsKey(doc[i])
  /\ SameColumn(doc)
  /\ \E i, j \in 1..Len(doc) : i < j /\ KeyOf(doc[i]) = KeyOf(doc[j])

IsLastOccurrence(doc, i) ==
  \A j \in (i + 1)..Len(doc) : KeyOf(doc[j]) # KeyOf(doc[i])

\* The dict d holds every key of the document once, with the value its last
\* line gives it.
LastWins(d, doc) ==
  /\ \A i, j \in 1..Len(d.keys) : i # j => d.keys[i] # d.keys[j]
  /\ {d.keys[i] : i \in 1..Len(d.keys)} = {KeyOf(doc[i]) : i \in 1..Len(doc)}
  /\ \A i \in 1..Len(doc) :
       IsLastOccurrence(doc, i) =>
         DictGetAt(d, KeyIndex(d.keys, KeyOf(doc[i]), 1))
           = Returns(ExpectedValue(doc[i]))

\* C10: when the same key appears more than once in one mapping, load raises
\* no error, the mapping holds that key exactly once, and its value is the
\* one given by the last occurrence.
C10_DuplicateKeyLastWins ==
  DuplicateKeyDoc(fh) =>
    /\ pc # "raised"
    /\ pc = "returned" => IsDict(heap, result) /\ LastWins(heap[result.n], fh)

(***************************************************************************)
(* Directives                                                              *)
(***************************************************************************)
\* The step reads one more line.
ReadsLine == pc = "loop" /\ Len(fh') = Len(fh) + 1

DirectiveName(raw) == directive_re(Content(raw)).g1
DirectiveArgsOf(raw) == strip(directive_re(Content(raw)).g2)

\* A %YAML directive at column 0 that declares a version.
IsVersionDirective(raw) ==
  /\ IsDirective(raw)
  /\ DirectiveName(raw) = << "Y", "A", "M", "L" >>
  /\ DirectiveArgsOf(raw) # << >>

DeclaresVersion(raw, digits) ==
  IsVersionDirective(raw) /\ DirectiveArgsOf(raw) = digits

RaisesYAMLError == pc' = "raised" /\ error'.kind = "YAMLError"
WarnsOnce == pc' = "loop" /\ Len(warnings') = Len(warnings) + 1
NoWarning == pc' = "loop" /\ warnings' = warnings

\* What the step does for the version fl (float(args)).
VersionOutcome(fl) ==
  IF ~fl.ok THEN RaisesYAMLError
  ELSE IF FloatGE(fl.v, 2, 0) THEN RaisesYAMLError
  ELSE IF FloatGE(fl.v, 12, -1) THEN WarnsOnce
  ELSE fl.v # PyNaN => NoWarning

\* C11: for a version directive at column 0 declaring version v: if v >= 2
\* load raises YAMLError; if 1.2 <= v < 2 exactly one warning is emitted and
\* parsing continues; if v < 1.2 no warning is emitted and parsing continues;
\* a version that is not a number raises YAMLError.
C11_VersionDirective ==
  [][(ReadsLine /\ IsVersionDirective(Last(fh')))
       => VersionOutcome(float_(DirectiveArgsOf(Last(fh'))))]_vars

\* A version from 1.2 up to 2 was declared, with one warning, and load goes on.
C11_Witness ==
  /\ pc = "loop"
  /\ version.t = "float"
  /\ FloatGE(version, 12, -1)
  /\ ~FloatGE(version, 2, 0)
  /\ Len(warnings) = 1
  /\ IsVersionDirective(Last(fh))

\* C12: declaring directive version 2.0 raises YAMLError; declaring version
\* 1.1 succeeds but emits a warning; declaring version 1.0 succeeds and emits
\* no warning.
C12_VersionExamples ==
  [][ReadsLine =>
       /\ DeclaresVersion(Last(fh'), << "2", ".", "0" >>) => RaisesYAMLError
       /\ DeclaresVersion(Last(fh'), << "1", ".", "1" >>) => WarnsOnce
       /\ DeclaresVersion(Last(fh'), << "1", ".", "0" >>) => NoWarning]_vars

\* C12 as amended: declaring directive version 2.0 raises YAMLError;
\* declaring version 1.2 succeeds but emits a warning; declaring version 1.1
\* or 1.0 succeeds and emits no warning.
C12_VersionExamplesAmended ==
  [][ReadsLine =>
       /\ DeclaresVersion(Last(fh'), << "2", ".", "0" >>) => RaisesYAMLError
       /\ DeclaresVersion(Last(fh'), << "1", ".", "2" >>) => WarnsOnce
       /\ DeclaresVersion(Last(fh'), << "1", ".", "1" >>) => NoWarning
       /\ DeclaresVersion(Last(fh'), << "1", ".", "0" >>) => NoWarning]_vars

\* Version 1.1 was declared, without a warning, and load goes on.
C12_Witness ==
  /\ pc = "loop"
  /\ fh # << >>
  /\ DeclaresVersion(Last(fh), << "1", ".", "1" >>)
  /\ version = PyFloat(11, -1)
  /\ warnings = << >>

\* A directive at column 0 that parse_directive accepts without raising: an
\* unknown directive, %YAML alone, or a version below 2.
IsNonFatalDirective(raw) ==
  /\ IsDirective(raw)
  /\ \/ DirectiveName(raw) # << "Y", "A", "M", "L" >>
     \/ DirectiveArgsOf(raw) = << >>
     \/ /\ float_(DirectiveArgsOf(raw)).ok
        /\ ~FloatGE(float_(DirectiveArgsOf(raw)).v, 2, 0)

IsIgnored(raw) == IsBlank(raw) \/ IsComment(raw) \/ IsNonFatalDirective(raw)

\* The lines of the document that are not ignored.
RECURSIVE WithoutIgnored(_)
WithoutIgnored(doc) ==
  IF doc = << >> THEN << >>
  ELSE IF IsIgnored(doc[1]) THEN WithoutIgnored(Tail(doc))
  ELSE << doc[1] >> \o WithoutIgnored(Tail(doc))

\* The frame load reaches on the lines i.. of the document from the state st:
\* the loop of lines 279-409, left by an exception or a break.
RECURSIVE LoadFrom(_, _, _)
LoadNext(f, doc, i) ==
  IF Raised(f) \/ f.ctl = "break" THEN f ELSE LoadFrom(f, doc, i + 1)
LoadFrom(st, doc, i) ==
  IF i > Len(doc) THEN st ELSE LoadNext(LoopBody(st, doc[i]), doc, i)

\* The tree (root and heap) is the one load builds without the ignored lines.
SameTreeWithoutIgnored(g) == g.root = root /\ g.heap = heap

\* C13: blank lines, comment lines at any indentation and non-fatal directive
\* lines at column 0 change nothing in the parse state except the line
\* counter and the declared version: no container is closed, the pending key
\* stays, the tree is untouched, and so the input without these lines gives
\* the same tree.
C13_IgnoredLinesFrame ==
  /\ [][(ReadsLine /\ IsIgnored(Last(fh')))
          => /\ pc' = "loop"
             /\ lineno' = lineno + 1
             /\ UNCHANGED << root, indent_level, current_level, current,
                             last, heap >>]_vars
  /\ [](pc # "raised"
          => SameTreeWithoutIgnored(LoadFrom(InitialState, WithoutIgnored(fh), 1)))

\* A directive between a key with empty value and its continuation line.
C13_Witness ==
  /\ pc = "loop"
  /\ Len(fh) = 3
  /\ IsKey(fh[1])
  /\ ValueOf(fh[1]) = << >>
  /\ IsNonFatalDirective(fh[2])
  /\ IsBareText(fh[3])
  /\ IsDict(heap, root)
  /\ heap[root.n].vals = << PyStr(Content(fh[3])) >>

(***************************************************************************)
(* Scalars: the typed values of decode_value                               *)
(***************************************************************************)
\* The call of decode_value has ended.
Decoded == pc # "call"
DecodedTo(v) == pc = "returned" /\ decoded = Returns(v)
DecodedInteger == pc = "returned" /\ decoded.v.t = "int"

HexDigits ==
  DecDigits \cup {"a", "b", "c", "d", "e", "f", "A", "B", "C", "D", "E", "F"}
BinDigits == {"0", "1"}
OctDigits == {"0", "1", "2", "3", "4", "5", "6", "7"}

\* The digits of the text d, which has digits of the set and underscores
\* between, before or after them.
Separated(d, digits) ==
  /\ AllIn(d, digits \cup {"_"})
  /\ replace(d, << "_" >>, << >>) # << >>

\* The number the digits d (most significant first) write in the base.
RECURSIVE NumeralValue(_, _)
NumeralValue(d, base) ==
  IF d = << >> THEN 0
  ELSE NumeralValue(Front(d), base) * base + DigitVal(Last(d))

Numeral(d, base) == NumeralValue(replace(d, << "_" >>, << >>), base)

\* The four integer forms, in the order of the claim.
IsHexText(t) ==
  Len(t) > 2 /\ t[1] = "0" /\ t[2] = "x" /\ Separated(Drop(t, 2), HexDigits)
IsBinText(t) ==
  Len(t) > 2 /\ t[1] = "0" /\ t[2] = "b" /\ Separated(Drop(t, 2), BinDigits)
IsOctText(t) == Len(t) > 1 /\ t[1] = "0" /\ Separated(Tail(t), OctDigits)
IsDecText(t) == Separated(Unsigned(t), DecDigits)

IsIntegerText(t) == IsHexText(t) \/ IsBinText(t) \/ IsOctText(t) \/ IsDecText(t)

IntegerOf(t) ==
  IF IsHexText(t) THEN Numeral(Drop(t, 2), 16)
  ELSE IF IsBinText(t) THEN Numeral(Drop(t, 2), 2)
  ELSE IF IsOctText(t) THEN Numeral(Tail(t), 8)
  ELSE IF IsNegative(t) THEN -Numeral(Tail(t), 10)
  ELSE Numeral(Unsigned(t), 10)

\* A text of digits, letters of the prefixes, underscores and signs.
IsDigitString(t) == AllIn(t, HexDigits \cup {"x", "_", "-", "+"})

\* The text fits no integer form, with or without its underscores.
FitsNoIntegerForm(t) ==
  /\ IsDigitString(t)
  /\ ~IsIntegerText(replace(t, << "_" >>, << >>))

\* C14: an unquoted text of one of the four integer forms (0x + hex digits,
\* 0b + binary digits, 0 + octal digits, optional sign + decimal digits,
\* underscores between the digits dropped) decodes to the Integer of that
\* base, and a digit string that fits none of the forms does not decode to
\* an Integer.  (The text 0 alone is the case of C15.)
C14_IntegerForms ==
  Decoded =>
    /\ IsIntegerText(text) /\ text # << "0" >>
         => DecodedTo(PyInt(IntegerOf(text)))
    /\ FitsNoIntegerForm(text) => ~DecodedInteger

\* A line "k: 0" or "- 0" at column 0.
IsZeroKey(raw) ==
  IsBareKey(raw) /\ Column(raw) = 0 /\ ValueOf(raw) = << "0" >>
IsZeroItem(raw) ==
  IsScalarItem(raw) /\ Column(raw) = 0 /\ ItemOf(raw) = << "0" >>

\* C15: the scalar text 0 decodes to Integer 0: the document "k: 0" loads as
\* a Mapping with k -> 0 and the document "- 0" as a Sequence with the
\* element 0, without any error.
C15_ZeroIsInteger ==
  Len(fh) = 1 =>
    /\ IsZeroKey(fh[1]) =>
         /\ pc # "raised"
         /\ IsDict(heap, root)
         /\ heap[root.n].keys = << KeyOf(fh[1]) >>
         /\ heap[root.n].vals = << PyInt(0) >>
    /\ IsZeroItem(fh[1]) =>
         /\ pc # "raised"
         /\ IsList(heap, root)
         /\ heap[root.n].vals = << PyInt(0) >>

\* The groups of a text of colon-separated groups, without its sign.
GroupsOf(t) == split(Unsigned(t), ":")

\* Groups of decimal digits, at least two, those after the first of one or
\* two digits.
IsGrouped(gs) ==
  /\ Len(gs) >= 2
  /\ \A k \in 1..Len(gs) : isdigit(gs[k])
  /\ \A k \in 2..Len(gs) : Len(gs[k]) <= 2

LaterGroupsBelow60(gs) ==
  \A k \in 2..Len(gs) : NumeralValue(gs[k], 10) <= 59

IsSexagesimalText(t) == IsGrouped(GroupsOf(t)) /\ LaterGroupsBelow60(GroupsOf(t))
HasLargeGroup(t) == IsGrouped(GroupsOf(t)) /\ ~LaterGroupsBelow60(GroupsOf(t))

\* value = value * 60 + group, from the left.
RECURSIVE Accumulate(_, _)
Accumulate(gs, value) ==
  IF gs = << >> THEN value
  ELSE Accumulate(Tail(gs), value * 60 + NumeralValue(gs[1], 10))

SexagesimalOf(t) ==
  IF IsNegative(t) THEN -Accumulate(GroupsOf(t), 0)
  ELSE Accumulate(GroupsOf(t), 0)

\* C16: a text of colon-separated digit groups with an optional sign, every
\* group after the first in 0..59, decodes to sign * the accumulation
\* value = value * 60 + group over the groups from the left (1:30 -> 90,
\* -1:30 -> -90, 1:30:00 -> 5400); with a later group of 60 or more the text
\* is not decoded as sexagesimal: it stays the String it is.
C16_Sexagesimal ==
  Decoded =>
    /\ IsSexagesimalText(text) => DecodedTo(PyInt(SexagesimalOf(text)))
    /\ HasLargeGroup(text) => DecodedTo(PyStr(text))

\* -1:30 has decoded to -90.
C16_Witness ==
  /\ text = << "-", "1", ":", "3", "0" >>
  /\ DecodedTo(PyInt(-90))

\* An unquoted scalar: no quote at its start and no comment after it.
IsUnquoted(t) ==
  /\ t # << >>
  /\ t[1] \notin {"'", "\""}
  /\ FindFrom(t, << " ", "#" >>, 1) = 0

TrueText == << "t", "r", "u", "e" >>
FalseText == << "f", "a", "l", "s", "e" >>
NullTexts ==
  {<< "~" >>, << "n", "u", "l", "l" >>, << "N", "u", "l", "l" >>,
   << "N", "U", "L", "L" >>}

DecodedBoolean == pc = "returned" /\ decoded.v.t = "bool"
DecodedNull == pc = "returned" /\ decoded.v = None

\* C17: an unquoted scalar decodes to a Boolean exactly when its text is true
\* or false (True, yes, no, on, off stay the Strings they are), and to Null
\* exactly when its text is one of ~, null, Null, NULL.
C17_BooleanAndNull ==
  (Decoded /\ IsUnquoted(text)) =>
    /\ DecodedBoolean <=> text \in {TrueText, FalseText}
    /\ text = TrueText => DecodedTo(PyBool(TRUE))
    /\ text = FalseText => DecodedTo(PyBool(FALSE))
    /\ DecodedNull <=> text \in NullTexts
    /\ text \in {<< "T", "r", "u", "e" >>, << "y", "e", "s" >>, << "n", "o" >>,
                 << "o", "n" >>, << "o", "f", "f" >>}
         => DecodedTo(PyStr(text))

\* yes has decoded to the String yes.
C17_Witness ==
  /\ text = << "y", "e", "s" >>
  /\ DecodedTo(PyStr(<< "y", "e", "s" >>))

(***************************************************************************)
(* Scalars: quoted values                                                  *)
(***************************************************************************)
\* The number of backslashes the text ends with.
RECURSIVE TrailingBackslashes(_)
TrailingBackslashes(b) ==
  IF b = << >> \/ Last(b) # "\\" THEN 0
  ELSE 1 + TrailingBackslashes(Front(b))

\* The text between the first and the last character.
Body(t) == SubSeq(t, 2, Len(t) - 1)

\* A value wrapped in the quote q; a double quote after an odd number of
\* backslashes is escaped and closes nothing.
IsWrapped(t, q) == Len(t) >= 2 /\ t[1] = q /\ Last(t) = q
IsSingleQuoted(t) == IsWrapped(t, "'")
IsDoubleQuoted(t) ==
  IsWrapped(t, "\"") /\ TrailingBackslashes(Body(t)) % 2 = 0

DecodedString == pc = "returned" /\ decoded.v.t = "str"

\* C18: a value wrapped in single or double quotes always decodes to a
\* String, whatever its content reads as ('123', "true", '~', 'a #b'); a
\* single-quoted value decodes to its content with each doubled single quote
\* turned into one quote and its backslashes kept.
C18_QuotedIsString ==
  Decoded =>
    /\ IsSingleQuoted(text)
         => DecodedTo(PyStr(replace(Body(text), << "'", "'" >>, << "'" >>)))
    /\ IsDoubleQuoted(text) => DecodedString

\* The escape letters of a double-quoted value and the character each one
\* stands for.
EscapeLetters ==
  {"0", "a", "b", "t", "n", "N", "v", "f", "r", "e", " ", "_", "L", "P"}

EscapeCharacter(c) ==
  CASE c = "0" -> Chr(0) [] c = "a" -> Chr(7) [] c = "b" -> Chr(8)
    [] c = "t" -> Chr(9) [] c = "n" -> Chr(10) [] c = "N" -> Chr(133)
    [] c = "v" -> Chr(11) [] c = "f" -> Chr(12) [] c = "r" -> Chr(13)
    [] c = "e" -> Chr(27) [] c = " " -> " " [] c = "_" -> Chr(160)
    [] c = "L" -> Chr(8232) [] c = "P" -> Chr(8233)

\* The double-quoted value of the one escape \c.
Escaped(c) == << "\"", "\\", c, "\"" >>

\* C19: in a double-quoted value every backslash escape expands to its
\* character: 0 NUL, a BEL, b BS, t TAB, n LF, N NEL, v VT, f FF, r CR,
\* e ESC (U+001B), space, _ NBSP, L LS, P PS, and x + 2, u + 4, U + 8 hex
\* digits the character of that code point; "a\nb" is a, line feed, b.
C19_EscapesExpand ==
  Decoded =>
    /\ \A c \in EscapeLetters :
         text = Escaped(c) => DecodedTo(PyStr(<< EscapeCharacter(c) >>))
    /\ text = << "\"", "\\", "x", "4", "1", "\"" >> => DecodedTo(PyStr(<< "A" >>))
    /\ text = << "\"", "\\", "u", "0", "0", "4", "1", "\"" >>
         => DecodedTo(PyStr(<< "A" >>))
    /\ text = << "\"", "\\", "U", "0", "0", "0", "0", "0", "0", "4", "1", "\"" >>
         => DecodedTo(PyStr(<< "A" >>))
    /\ text = << "\"", "a", "\\", "n", "b", "\"" >>
         => DecodedTo(PyStr(<< "a", Chr(10), "b" >>))

\* Every backslash of the text is half of a pair of two.
RECURSIVE OnlyPairs(_)
OnlyPairs(b) ==
  IF b = << >> THEN TRUE
  ELSE IF b[1] # "\\" THEN OnlyPairs(Tail(b))
  ELSE Len(b) >= 2 /\ b[2] = "\\" /\ OnlyPairs(Drop(b, 2))

\* The text with one backslash for each pair, the rest as written.
RECURSIVE Unpaired(_)
Unpaired(b) ==
  IF b = << >> THEN << >>
  ELSE IF b[1] # "\\" THEN << b[1] >> \o Unpaired(Tail(b))
  ELSE << "\\" >> \o Unpaired(Drop(b, 2))

\* A double-quoted value with escaped backslashes and no other escape.
HasEscapedBackslash(t) ==
  /\ IsWrapped(t, "\"")
  /\ FindChar(Body(t), {"\\"}, 1) > 0
  /\ OnlyPairs(Body(t))

\* C20: in a double-quoted value an escaped backslash (two backslashes)
\* decodes to exactly one backslash and the character after the pair is not
\* read as an escape: backslash backslash n gives a backslash and the letter
\* n, and a value that ends in an escaped backslash decodes without error.
C20_EscapedBackslash ==
  (Decoded /\ HasEscapedBackslash(text))
    => DecodedTo(PyStr(Unpaired(Body(text))))

(***************************************************************************)
(* Trailing comments                                                       *)
(***************************************************************************)
\* The place of the first space-then-hash of the text, 0 when it has none.
CommentAt(v) == FindFrom(v, << " ", "#" >>, 1)

\* An unquoted value with a trailing comment.
HasTrailingComment(v) ==
  v # << >> /\ v[1] \notin {"'", "\"", "#"} /\ CommentAt(v) > 0

\* The text before the comment, without its trailing spaces.
BeforeComment(v) == rstrip(Take(v, CommentAt(v) - 1))

\* The text after the colon of a key line.
AfterColon(raw) == KeyMatch(Content(raw)).g2

\* The value the key has in the current mapping after the step.
StoredUnder(key) ==
  heap'[current'.n].vals[KeyIndex(heap'[current'.n].keys, key, 1)]

\* The step stores the last line's key with the value v, or has v as the
\* last item of the current sequence.
StoresKey(raw, v) ==
  /\ IsDict(heap', current')
  /\ KeyIndex(heap'[current'.n].keys, KeyOf(raw), 1) > 0
  /\ StoredUnder(KeyOf(raw)) = v
StoresItem(v) ==
  /\ heap'[current'.n].vals # << >>
  /\ Last(heap'[current'.n].vals) = v

\* What the step does with the decoding d of the text before the comment.
StoresDecodedKey(raw, d) ==
  IF d.exc # "" THEN pc' = "raised"
  ELSE pc' = "loop" => (StoresKey(raw, d.v) /\ last' = None)
StoresDecodedItem(d) ==
  IF d.exc # "" THEN pc' = "raised"
  ELSE (pc' = "loop" /\ IsList(heap', current')) => StoresItem(d.v)

\* C21: trailing comments never reach the value: for an unquoted value with a
\* space-then-hash in it, the value stored is the decoding of the text before
\* it, trailing spaces removed (k: 12 # c stores Integer 12); and a key whose
\* colon is followed only by spaces and a comment is a key with empty value:
\* it is stored with None and becomes the pending key.
C21_TrailingComment ==
  [][ReadsLine =>
       /\ (IsKey(Last(fh')) /\ HasTrailingComment(AfterColon(Last(fh'))))
            => StoresDecodedKey(Last(fh'),
                                decode_value(BeforeComment(AfterColon(Last(fh')))))
       /\ (IsScalarItem(Last(fh')) /\ HasTrailingComment(ItemOf(Last(fh'))))
            => StoresDecodedItem(decode_value(BeforeComment(ItemOf(Last(fh')))))
       /\ (IsKey(Last(fh')) /\ AfterColon(Last(fh')) # << >>
             /\ AfterColon(Last(fh'))[1] = "#")
            => (pc' = "loop" =>
                  /\ StoresKey(Last(fh'), None)
                  /\ last' = PyStr(KeyOf(Last(fh'))))
       /\ Last(fh') = << "k", ":", " ", "1", "2", " ", "#", " ", "c" >>
            => (pc' = "loop" => StoresKey(Last(fh'), PyInt(12)))]_vars

\* k: 12 # c has stored Integer 12, and then a key with only a comment after
\* its colon is pending with None.
C21_Witness ==
  /\ pc = "loop"
  /\ Len(fh) = 2
  /\ fh[1] = << "k", ":", " ", "1", "2", " ", "#", " ", "c" >>
  /\ AfterColon(fh[2]) # << >>
  /\ AfterColon(fh[2])[1] = "#"
  /\ KeyOf(fh[2]) = << "k" >>
  /\ IsDict(heap, root)
  /\ heap[root.n].keys = << << "k" >> >>
  /\ heap[root.n].vals = << None >>
  /\ last = PyStr(<< "k" >>)

(***************************************************************************)
(* Calls side by side                                                      *)
(***************************************************************************)
\* What load does alone on the lines k.. of the document from the state st:
\* where it stands, its state and the exception it raises.
RECURSIVE Alone(_, _, _)
AloneStep(f, doc, k) ==
  IF Raised(f)
    THEN [pc |-> "raised", st |-> StateFields(f),
          error |-> LoadExcept(f.exc, f.lineno)]
  ELSE IF f.ctl = "break"
    THEN [pc |-> "returned", st |-> StateFields(f), error |-> NoExc]
  ELSE Alone(StateFields(f), doc, k + 1)
Alone(st, doc, k) ==
  IF k > Len(doc) THEN [pc |-> "loop", st |-> st, error |-> NoExc]
  ELSE AloneStep(LoopBody(st, doc[k]), doc, k)

\* The call c stands where the run alone (a) stands, with the same state, the
\* same exception and, once it has returned, the same value.
SameAsAlone(c, a) ==
  /\ c.st = a.st
  /\ c.error = a.error
  /\ (c.pc = "raised") <=> (a.pc = "raised")
  /\ c.pc = "loop" => a.pc = "loop"
  /\ c.pc = "returned" => c.result = a.st.root

\* C22: two calls of load, each with its own stream and its own state, whose
\* steps are interleaved in any order, each return the same value or raise
\* the same YAMLError (same line number) as when run alone.
C22_CallsIndependent ==
  pc = "calls" =>
    \A i \in Callers : SameAsAlone(calls[i], Alone(InitialState, calls[i].fh, 1))

\* Both calls have read two lines of different streams; one has raised and
\* the other has returned a mapping.
C22_Witness ==
  /\ pc = "calls"
  /\ calls[1].pc = "raised"
  /\ calls[1].error.kind = "YAMLError"
  /\ Len(calls[1].fh) = 2
  /\ calls[2].pc = "returned"
  /\ Len(calls[2].fh) = 2
  /\ IsDict(calls[2].st.heap, calls[2].result)
  /\ calls[1].fh # calls[2].fh

(***************************************************************************)
(* Closing blocks                                                          *)
(***************************************************************************)
\* The number of recorded indentations that stay when a line at column c
\* closes those that exceed c.
RECURSIVE Kept(_, _)
Kept(levels, c) ==
  IF levels = << >> THEN 0
  ELSE IF Last(levels) > c THEN Kept(Front(levels), c)
  ELSE Len(levels)

\* The step reads a content line indented less than the innermost recorded
\* indentation.
ReadsDedent ==
  /\ ReadsLine
  /\ IsContent(Last(fh'))
  /\ indent_level # << >>
  /\ Column(Last(fh')) < Last(indent_level)

\* A key line, or an item line with a scalar, whose column is the innermost
\* of the recorded indentations that stay.
AtEnclosingColumn(raw, m) ==
  /\ m > 0
  /\ Column(raw) = indent_level[m]
  /\ IsKey(raw) \/ IsScalarItem(raw)

\* The stacks are cut down to their first m entries and current is the
\* container that was recorded with the last level closed.
ClosedDownTo(m) ==
  /\ indent_level' = Take(indent_level, m)
  /\ current_level' = Take(current_level, m)
  /\ current' = current_level[m + 1]

\* The line is added to the container that is now current.
AddedToCurrent(raw) ==
  IF IsKey(raw)
    THEN /\ IsDict(heap', current')
         /\ KeyIndex(heap'[current'.n].keys, KeyOf(raw), 1) > 0
         /\ last' = IF ValueOf(raw) = << >> THEN PyStr(KeyOf(raw)) ELSE None
    ELSE /\ IsList(heap', current')
         /\ Len(heap'[current'.n].vals) = Len(heap[current'.n].vals) + 1
         /\ last' = None

\* What the step does when m recorded indentations stay.
DedentOutcome(raw, m) ==
  pc' = "loop" =>
    /\ Take(indent_level', m) = Take(indent_level, m)
    /\ Take(current_level', m) = Take(current_level, m)
    /\ \/ last' = None
       \/ IsKey(raw) /\ ValueOf(raw) = << >> /\ last' = PyStr(KeyOf(raw))
    /\ AtEnclosingColumn(raw, m) => (ClosedDownTo(m) /\ AddedToCurrent(raw))

\* C23: on a line indented less than the innermost recorded indentation,
\* load pops the indent and container stacks until the innermost recorded
\* indentation no longer exceeds the line's, clears the pending key, and makes
\* current the container recorded with the last level popped; a key or list
\* item on that line at the column of an enclosing block's recorded
\* indentation is added to that enclosing container, never to a closed one.
C23_DedentCloses ==
  [][ReadsDedent
       => DedentOutcome(Last(fh'), Kept(indent_level, Column(Last(fh'))))]_vars

\* Two levels were closed at once: after a:, b: and c: 1 at columns 0, 2, 4, a
\* key at column 0 went into the root mapping.
C23_Witness ==
  /\ pc = "loop"
  /\ Len(fh) = 4
  /\ Column(fh[1]) = 0 /\ Column(fh[2]) = 2 /\ Column(fh[3]) = 4
  /\ IsKey(fh[3]) /\ IsKey(fh[4]) /\ Column(fh[4]) = 0
  /\ KeyOf(fh[4]) # KeyOf(fh[1])
  /\ indent_level = << 0 >>
  /\ current = root
  /\ IsDict(heap, root)
  /\ Len(heap[root.n].keys) = 2
  /\ Len(heap) = 3

(***************************************************************************)
(* Sibling keys and sequences of mappings                                  *)
(***************************************************************************)
\* The step reads a key line right after a key line at the same column, with
\* another key.
ReadsSiblingKey ==
  /\ ReadsLine
  /\ fh # << >>
  /\ IsKey(Last(fh))
  /\ IsKey(Last(fh'))
  /\ Column(Last(fh')) = Column(Last(fh))
  /\ KeyOf(Last(fh')) # KeyOf(Last(fh))

\* The mapping d of the heap h has the key.
HoldsKey(h, d, key) == IsDict(h, d) /\ KeyIndex(h[d.n].keys, key, 1) > 0

\* C24: two consecutive key lines starting at the same column are siblings in
\* the same mapping: the second key is added to the mapping that holds the
\* first and does not become a child of the first, at every column (also for
\* a root mapping at a column > 0) and also when the first key has an empty
\* value.
C24_SameColumnSiblings ==
  [][ReadsSiblingKey
       => /\ pc' = "loop"
          /\ current' = current
          /\ HoldsKey(heap', current, KeyOf(Last(fh)))
          /\ HoldsKey(heap', current, KeyOf(Last(fh')))]_vars

\* An item line "- key: value", the column of its key, and its key.
IsDashKey(raw) ==
  /\ IsItem(raw)
  /\ ~StartsWithMarker(ItemOf(raw))
  /\ KeyMatch(ItemOf(raw)).m
  /\ KeyValue(KeyMatch(ItemOf(raw)).g2) # << >>
DashKeyColumn(raw) == Column(raw) + Len(Content(raw)) - Len(ItemOf(raw))
DashKey(raw) == KeyMatch(ItemOf(raw)).g1

\* The key of a line of a sequence of mappings.
LineKey(raw) == IF IsItem(raw) THEN DashKey(raw) ELSE KeyOf(raw)

\* A sequence of mappings: lines "- key: value" with the dashes at the column
\* of the first, and key lines aligned with the key of the first.
SeqOfMappings(doc) ==
  /\ doc # << >>
  /\ IsDashKey(doc[1])
  /\ \A i \in 1..Len(doc) :
       \/ IsDashKey(doc[i]) /\ Column(doc[i]) = Column(doc[1])
       \/ IsKey(doc[i]) /\ Column(doc[i]) = DashKeyColumn(doc[1])

\* The number of dash lines among the first i lines.
RECURSIVE Dashes(_, _)
Dashes(doc, i) ==
  IF i = 0 THEN 0
  ELSE Dashes(doc, i - 1) + (IF IsItem(doc[i]) THEN 1 ELSE 0)

\* The n-th element of the root sequence is a mapping with exactly the keys of
\* the lines from the n-th dash to the next.
ElementHoldsGroup(doc, n) ==
  /\ IsDict(heap, heap[root.n].vals[n])
  /\ \A i \in 1..Len(doc) :
       Dashes(doc, i) = n => HoldsKey(heap, heap[root.n].vals[n], LineKey(doc[i]))
  /\ \A k \in 1..Len(heap[heap[root.n].vals[n].n].keys) :
       \E i \in 1..Len(doc) :
         /\ Dashes(doc, i) = n
         /\ LineKey(doc[i]) = heap[heap[root.n].vals[n].n].keys[k]

\* C25: for a sequence whose items are written "- key: value", with further
\* key lines aligned with the key, every dash at the sequence's column adds
\* exactly one new Mapping, the key of the dash line and the aligned keys
\* after it land in that element, and n dashes give a Sequence of exactly n
\* Mappings in file order.
C25_SequenceOfMappings ==
  SeqOfMappings(fh) =>
    /\ pc # "raised"
    /\ IsList(heap, root)
    /\ Len(heap[root.n].vals) = Dashes(fh, Len(fh))
    /\ \A n \in 1..Dashes(fh, Len(fh)) : ElementHoldsGroup(fh, n)

\* Two dashes, each followed by an aligned key: two mappings of two keys.
C25_Witness ==
  /\ pc = "returned"
  /\ Len(fh) = 4
  /\ SeqOfMappings(fh)
  /\ IsItem(fh[1]) /\ IsKey(fh[2]) /\ IsItem(fh[3]) /\ IsKey(fh[4])
  /\ IsList(heap, result)
  /\ Len(heap[result.n].vals) = 2
  /\ Len(heap[heap[result.n].vals[1].n].keys) = 2
  /\ Len(heap[heap[result.n].vals[2].n].keys) = 2
(***************************************************************************)
(* The lone dash                                                           *)
(***************************************************************************)

\* The content of the line is a dash and nothing else.
IsLoneDash(raw) == Content(raw) = << "-" >>

\* C26: a line whose content is a lone dash is accepted as a list marker
\* introducing a sequence element: load processes it without raising.
C26_LoneDashAccepted ==
  (fh # << >> /\ IsLoneDash(fh[Len(fh)])) => pc # "raised"
(***************************************************************************)
(* The pending key                                                         *)
(***************************************************************************)
\* The pending key is a key of current, which is a mapping.
PendingKeyHeld == last # None => HoldsKey(heap, current, last.s)

\* The step reads a content line and the loop goes on.
ReadsContent == ReadsLine /\ IsContent(Last(fh')) /\ pc' = "loop"

\* The line is a key line with a value, behind a list marker or not.
CarriesValue(raw) == (IsKey(raw) /\ ValueOf(raw) # << >>) \/ IsDashKey(raw)

\* The line closes at least one level.
Pops(raw) == indent_level # << >> /\ Column(raw) < Last(indent_level)

\* The line opens a sequence under the pending key.
PushesUnderPending(raw) ==
  /\ Truthy(last)
  /\ IsItem(raw)
  /\ indent_level # << >>
  /\ Column(raw) > Last(indent_level)

\* No key is pending after the line, but the key of the line itself when it
\* has no value.
PendingCleared(raw) ==
  \/ last' = None
  \/ IsKey(raw) /\ ValueOf(raw) = << >> /\ last' = PyStr(KeyOf(raw))

\* The value of the key that was pending is a sequence.
PendingHoldsSequence ==
  IsList(heap', heap'[current.n].vals[KeyIndex(heap[current.n].keys, last.s, 1)])

PendingStep(raw) ==
  /\ CarriesValue(raw) => last' = None
  /\ Pops(raw) => PendingCleared(raw)
  /\ PushesUnderPending(raw) => (last' = None /\ PendingHoldsSequence)

\* C27: at every line boundary, if a key is pending then current is a Mapping
\* and the pending key is one of its keys; the pending key is cleared by every
\* pop, by every push of a nested Sequence under it, and by every key line
\* that carries a value.
C27_PendingKey ==
  /\ []PendingKeyHeld
  /\ [][ReadsContent => PendingStep(Last(fh'))]_vars

\* A key was pending in a nested mapping and a sequence was opened under it.
C27_Witness ==
  /\ pc = "loop"
  /\ Len(fh) = 3
  /\ IsKey(fh[1]) /\ IsKey(fh[2]) /\ IsItem(fh[3])
  /\ ValueOf(fh[2]) = << >>
  /\ Column(fh[2]) = 2 /\ Column(fh[3]) = 4
  /\ last = None
  /\ Len(current_level) = 3
  /\ IsList(heap, current)
  /\ IsDict(heap, current_level[3])
  /\ HoldsKey(heap, current_level[3], KeyOf(fh[2]))
(***************************************************************************)
(* The open containers                                                     *)
(***************************************************************************)
\* The container c of the heap has the container d among its values.
DirectlyContains(c, d) ==
  /\ c.t = "ref"
  /\ d.t = "ref"
  /\ \E i \in 1..Len(heap[c.n].vals) : heap[c.n].vals[i] = d

\* The containers recorded above the placeholder start with root, and each
\* has the next among its values.
AncestorChain ==
  /\ current_level # << >>
  /\ current_level[1] = None
  /\ Len(current_level) > 1 => current_level[2] = root
  /\ \A i \in 2..(Len(current_level) - 1) :
       DirectlyContains(current_level[i], current_level[i + 1])

\* current is the root, or a value of the innermost recorded container.
CurrentOnChain ==
  IF Len(current_level) = 1 THEN current = root
  ELSE DirectlyContains(Last(current_level), current)

\* C28: in every non-error state after root has become a container, the open
\* containers form one ancestor chain from root: the container stack above
\* its placeholder starts with root, each entry directly contains the next,
\* and the top entry directly contains current (current is root when only the
\* placeholder is on the stack).
C28_AncestorChain ==
  (pc # "raised" /\ root.t = "ref") => (AncestorChain /\ CurrentOnChain)

\* Three containers are open: the root, a mapping in it and a sequence in
\* that mapping.
C28_Witness ==
  /\ pc = "loop"
  /\ Len(current_level) = 3
  /\ current_level[2] = root
  /\ IsDict(heap, root)
  /\ IsDict(heap, current_level[3])
  /\ IsList(heap, current)
  /\ heap[current.n].vals # << >>
  /\ DirectlyContains(root, current_level[3])
  /\ DirectlyContains(current_level[3], current)
(***************************************************************************)
(* Below the outermost level                                               *)
(***************************************************************************)
\* The step reads a content line indented less than the outermost recorded
\* indentation.
ReadsBelowBottom ==
  /\ ReadsLine
  /\ IsContent(Last(fh'))
  /\ indent_level # << >>
  /\ Column(Last(fh')) < indent_level[1]

\* load raises YAMLError with the number of the line just read (lines are
\* counted from 0), all recorded indentations closed.
RaisesAtLine ==
  /\ pc' = "raised"
  /\ error'.kind = "YAMLError"
  /\ error'.lineno = Len(fh)
  /\ indent_level' = << >>

\* An outermost indentation above 0 is that of the markers of a root
\* sequence.
BottomIsRootSequence ==
  indent_level[1] > 0 => (IsList(heap, root) /\ current_level[1] = None)

\* C29: the indent stack is non-empty in every non-error state; a content
\* line indented less than the bottom recorded indentation (possible only
\* when the markers of the root Sequence sit at a column > 0) empties the
\* stack and load raises the error with that line's number, rather than
\* continuing with no current container or returning a tree.
C29_BelowBottomRaises ==
  /\ [](pc # "raised" => (indent_level # << >> /\ BottomIsRootSequence))
  /\ [][ReadsBelowBottom => RaisesAtLine]_vars

\* A root sequence at column 2 with a nested item, then a line at column 0:
\* both levels were closed and load raised at the third line.
C29_Witness ==
  /\ pc = "raised"
  /\ Len(fh) = 3
  /\ Column(fh[1]) = 2 /\ Column(fh[2]) = 4 /\ Column(fh[3]) = 0
  /\ IsItem(fh[1]) /\ IsItem(fh[2]) /\ IsKey(fh[3])
  /\ indent_level = << >>
  /\ IsList(heap, root)
  /\ error.kind = "YAMLError"
  /\ error.lineno = 2
(***************************************************************************)
(* The junctions between the regions                                       *)
(***************************************************************************)
\* The two sides of the junction above the region at index i draw the same
\* line, or one of them draws none.
JunctionAgrees(i) ==
  \/ regions[i].outline_upper = "solid" /\ regions[i + 1].outline_lower = "solid"
  \/ regions[i].outline_upper = "none"
  \/ regions[i + 1].outline_lower = "none"

\* C30: after any sequence of set_outline_lower and set_outline_upper calls
\* followed by add_discontinuities, no junction between two adjacent regions
\* is drawn by both sides with differing styles: every adjacent pair
\* (outline_upper, outline_lower) is ('solid', 'solid') or has a side 'none'.
C30_JunctionsAgree ==
  pc = "discontinuities" =>
    \A i \in 1..(Len(regions) - 1) : JunctionAgrees(i)

\* Before the discontinuities are added the setters keep the two sides of
\* every junction in agreement.
JunctionsAgreeBefore ==
  pc = "junctions" => \A i \in 1..(Len(regions) - 1) : JunctionAgrees(i)

====
